---- MODULE Spec2Model ----
(***************************************************************************)
(* Model of the two rule engines of the sports-club application:           *)
(*   - the age/category eligibility validators of app/form.py (policy A,   *)
(*     cutoff based) and app/forms.py (policy B, today based);             *)
(*   - the scheduling conflict checks of app/models.py (time overlap by    *)
(*     team and by coach) and of app/views.py (same day, same kind).       *)
(* and of the views built on them:                                         *)
(*   - attendance registration, edit and delete (asistencias_registrar,    *)
(*     asistencias_editar, asistencias_eliminar, app/views.py);            *)
(*   - concurrent requests of actividades_crear;                           *)
(*   - cancellation of an activity (actividad_cancelar) and the model's    *)
(*     own validation (ActividadDeportiva.clean);                          *)
(*   - the team views (equipos_crear, equipos_editar) and the user and     *)
(*     player views (usuarios_crear, usuarios_editar, jugadores_editar).   *)
(***************************************************************************)
EXTENDS Integers, Sequences, FiniteSets, TLC

VARIABLES
    hoy,            \* date.today() seen by the forms
    cleaned_data,   \* the player form under validation: fecha_nacimiento, equipo
    form_A,         \* outcome of JugadorForm.clean (policy A)
    form_B,         \* outcome of UsuarioCrearForm.clean (policy B)
    actividades,    \* table ActividadDeportiva (with its EquipoActividad rows): pk -> row
    mensaje,        \* last response of a view (django messages)
    candidato,      \* in-memory ActividadDeportiva the overlap checks are called on
    conflictos,     \* value returned by the last overlap check
    asistencias,    \* table Asistencia: pk -> row
    en_curso,       \* requests of actividades_crear between their conflict query and their insert
    evaluaciones,   \* the calls of the age/category validators made so far, with their results
    tabla_equipos,  \* table Equipo as the team and user views read and write it: pk -> row
    tabla_jugadores \* table Jugador: pk -> row (fecha_nacimiento, equipo)

vars == <<hoy, cleaned_data, form_A, form_B, actividades, mensaje, candidato, conflictos,
          asistencias, en_curso, evaluaciones, tabla_equipos, tabla_jugadores>>

varsElegibilidad == <<hoy, cleaned_data, form_A, form_B>>
varsActividades  == <<actividades, mensaje>>
varsSolapamiento == <<candidato, conflictos>>
varsAsistencia   == <<asistencias>>
varsConcurrencia == <<en_curso>>
varsEvaluaciones == <<evaluaciones>>
varsClub == <<tabla_equipos, tabla_jugadores>>

\* Python's None and an optional value
None == <<>>
Some(v) == <<v>>
Val(o) == o[1]

Pendiente == [estado |-> "pendiente"]

(***************************************************************************)
(* Text: str values are sequences of characters.                           *)
(***************************************************************************)
Mayusculas == [c \in {"S", "U", "B"} |-> CASE c = "S" -> "s" [] c = "U" -> "u" [] c = "B" -> "b"]

\* str.lower()
lower(s) == [i \in 1..Len(s) |-> IF s[i] \in DOMAIN Mayusculas THEN Mayusculas[s[i]] ELSE s[i]]

\* Python's  sub in s
Contiene(sub, s) ==
    \E i \in 1..(Len(s) - Len(sub) + 1) : SubSeq(s, i, i + Len(sub) - 1) = sub

\* str.strip() on a text of letters and blanks
RECURSIVE lstrip(_)
lstrip(s) == IF s # <<>> /\ s[1] = " " THEN lstrip(Tail(s)) ELSE s

RECURSIVE rstrip(_)
rstrip(s) == IF s # <<>> /\ s[Len(s)] = " " THEN rstrip(SubSeq(s, 1, Len(s) - 1)) ELSE s

strip(s) == rstrip(lstrip(s))

(***************************************************************************)
(* Calendar dates (datetime.date) for the eligibility forms.               *)
(***************************************************************************)
EsBisiesto(y) == (y % 4 = 0 /\ y % 100 # 0) \/ y % 400 = 0

DiasDelMes(y, m) ==
    IF m = 2 THEN (IF EsBisiesto(y) THEN 29 ELSE 28)
    ELSE IF m \in {4, 6, 9, 11} THEN 30 ELSE 31

Fecha(y, m, d) == [year |-> y, month |-> m, day |-> d]

DiaSiguiente(f) ==
    IF f.day < DiasDelMes(f.year, f.month) THEN Fecha(f.year, f.month, f.day + 1)
    ELSE IF f.month < 12 THEN Fecha(f.year, f.month + 1, 1)
    ELSE Fecha(f.year + 1, 1, 1)

DiaAnterior(f) ==
    IF f.day > 1 THEN Fecha(f.year, f.month, f.day - 1)
    ELSE IF f.month > 1 THEN Fecha(f.year, f.month - 1, DiasDelMes(f.year, f.month - 1))
    ELSE Fecha(f.year - 1, 12, 31)

\* Python's (m1, d1) < (m2, d2) on tuples
TuplaMenor(m1, d1, m2, d2) == m1 < m2 \/ (m1 = m2 /\ d1 < d2)

\* bool used as int in an arithmetic expression
BoolInt(b) == IF b THEN 1 ELSE 0

(***************************************************************************)
(* Input domains of the eligibility forms.                                  *)
(***************************************************************************)
AnioNacMax == 2013
AniosNac == 2005..AnioNacMax
AniosHoy == {2025, 2026}

MesesNac == {1, 2, 6, 12}
DiasNac  == {1, 15, 29, 31}
DiasHoy  == {<<1, 1>>, <<6, 14>>, <<6, 20>>, <<12, 31>>}

FechasNacimiento ==
    {Fecha(y, m, d) : <<y, m, d>> \in
        {t \in AniosNac \X MesesNac \X DiasNac : t[3] <= DiasDelMes(t[1], t[2])}}

HoyPosibles ==
    {Fecha(y, md[1], md[2]) : <<y, md>> \in AniosHoy \X DiasHoy}

sub_14 == <<"s", "u", "b", "_", "1", "4">>
sub_16 == <<"s", "u", "b", "_", "1", "6">>
sub_18 == <<"s", "u", "b", "_", "1", "8">>

TextosCategoria ==
    { sub_14, sub_16, sub_18,
      <<"S", "u", "b", "_", "1", "4">>,
      <<"s", "u", "b", "-", "1", "4">>,
      <<"s", "u", "b", "1", "4">>,
      <<"S", "u", "b", "-", "1", "6">>,
      <<"s", "u", "b", "1", "6">>,
      <<"s", "u", "b", "-", "1", "8">>,
      <<"s", "u", "b", "1", "8">>,
      <<"a", "d", "u", "l", "t", "o">>,
      <<"s", "u", "b", "-", "1", "6", "-", "s", "u", "b", "-", "1", "4">> }

\* Categoria rows as the two forms read them: form.py reads categoria.nombre,
\* forms.py reads categoria.slug (models.py:45).
Categorias ==
    {[nombre |-> Some(t), slug |-> t] : t \in TextosCategoria}
    \cup {[nombre |-> None, slug |-> <<"s", "u", "b", "-", "1", "4">>],
          [nombre |-> Some(sub_14), slug |-> <<"s", "u", "b", "-", "1", "4">>]}

\* Equipo rows selectable in the forms; categoria is a mandatory foreign key (models.py:147)
EquiposFormulario == {[categoria |-> Some(c), entrenador_activo |-> a] : c \in Categorias, a \in BOOLEAN}

PerfilTipo_JUGADOR == "JUGAD"
PerfilTipo_ENTRENADOR == "ENTRE"

(***************************************************************************)
(* Policy A: app/form.py, _EdadCategoriaMixin                               *)
(***************************************************************************)
\* Variant: sub_14 starts at 13
REGLAS_CATEGORIA_MutMinimo(codigo) ==
    IF codigo = sub_14 THEN Some(<<13, 14>>)
    ELSE IF codigo = sub_16 THEN Some(<<14, 16>>)
    ELSE IF codigo = sub_18 THEN Some(<<16, 18>>)
    ELSE None

\* Variant: the upper bound of sub_14 taken as exclusive
REGLAS_CATEGORIA_Mut(codigo) ==
    IF codigo = sub_14 THEN Some(<<12, 13>>)
    ELSE IF codigo = sub_16 THEN Some(<<14, 16>>)
    ELSE IF codigo = sub_18 THEN Some(<<16, 18>>)
    ELSE None

REGLAS_CATEGORIA(codigo) ==
    IF codigo = sub_14 THEN Some(<<12, 14>>)
    ELSE IF codigo = sub_16 THEN Some(<<14, 16>>)
    ELSE IF codigo = sub_18 THEN Some(<<16, 18>>)
    ELSE None

\* Variant: cutoff on 31 December of the current year
fecha_corte_Mut(anio) ==
    LET anio_base == (IF anio = None THEN hoy.year ELSE Val(anio))
    IN  Fecha(anio_base, 12, 31)

\* anio is None or Some(year)
fecha_corte(anio) ==
    LET anio_base == (IF anio = None THEN hoy.year ELSE Val(anio)) - 1
    IN  Fecha(anio_base, 12, 31)

\* Variant: the age is taken today instead of at the cutoff
edad_al_corte_Mut(fecha_nacimiento, corte) ==
    hoy.year - fecha_nacimiento.year
      - BoolInt(TuplaMenor(hoy.month, hoy.day, fecha_nacimiento.month, fecha_nacimiento.day))

\* corte is None or Some(date)
edad_al_corte(fecha_nacimiento, corte) ==
    LET c == IF corte = None THEN fecha_corte(None) ELSE Val(corte)
    IN  c.year - fecha_nacimiento.year
          - BoolInt(TuplaMenor(c.month, c.day, fecha_nacimiento.month, fecha_nacimiento.day))

codigo_categoria_equipo(equipo) ==
    IF equipo = None \/ Val(equipo).categoria = None THEN None
    ELSE LET nombre == Val(Val(equipo).categoria).nombre
             texto  == lower(IF nombre = None THEN <<>> ELSE Val(nombre))
         IN  IF texto = <<>> THEN None ELSE Some(texto)

\* Variant: a missing birth date or team is reported as an error
validar_edad_vs_categoria_Mut(fecha_nacimiento, equipo) ==
    IF fecha_nacimiento = None \/ equipo = None
    THEN {[campo |-> "equipo", error |-> "sin_categoria"]}
    ELSE LET codigo == codigo_categoria_equipo(equipo) IN
         IF codigo = None THEN {[campo |-> "equipo", error |-> "sin_categoria"]}
         ELSE LET reglas == REGLAS_CATEGORIA(Val(codigo)) IN
              IF reglas = None THEN {[campo |-> "equipo", error |-> "categoria_invalida"]}
              ELSE LET edad  == edad_al_corte(Val(fecha_nacimiento), None)
                       min_e == Val(reglas)[1]
                       max_e == Val(reglas)[2]
                   IN  IF ~(min_e <= edad /\ edad <= max_e)
                       THEN {[campo |-> "equipo", error |-> "fuera_de_rango",
                              corte |-> fecha_corte(None), edad |-> edad,
                              min_e |-> min_e, max_e |-> max_e]}
                       ELSE {}

\* The set of errors the method adds to the form
validar_edad_vs_categoria(fecha_nacimiento, equipo) ==
    IF fecha_nacimiento = None \/ equipo = None THEN {}
    ELSE LET codigo == codigo_categoria_equipo(equipo) IN
         IF codigo = None THEN {[campo |-> "equipo", error |-> "sin_categoria"]}
         ELSE LET reglas == REGLAS_CATEGORIA(Val(codigo)) IN
              IF reglas = None THEN {[campo |-> "equipo", error |-> "categoria_invalida"]}
              ELSE LET edad  == edad_al_corte(Val(fecha_nacimiento), None)
                       min_e == Val(reglas)[1]
                       max_e == Val(reglas)[2]
                   IN  IF ~(min_e <= edad /\ edad <= max_e)
                       THEN {[campo |-> "equipo", error |-> "fuera_de_rango",
                              corte |-> fecha_corte(None), edad |-> edad,
                              min_e |-> min_e, max_e |-> max_e]}
                       ELSE {}

\* The local  edad  of _validar_edad_vs_categoria: Some(edad) when line 156 is
\* reached, None when the method returns before it
edad_evaluada(fecha_nacimiento, equipo) ==
    IF fecha_nacimiento = None \/ equipo = None THEN None
    ELSE LET codigo == codigo_categoria_equipo(equipo) IN
         IF codigo = None \/ REGLAS_CATEGORIA(Val(codigo)) = None THEN None
         ELSE Some(edad_al_corte(Val(fecha_nacimiento), None))

\* JugadorForm.clean / JugadorEditForm.clean
JugadorForm_clean ==
    /\ form_A.estado = "pendiente"
    /\ \E contacto \in BOOLEAN :
         LET equipo == cleaned_data.equipo
             fecha_nacimiento == cleaned_data.fecha_nacimiento
         IN  form_A' =
               IF ~contacto
               THEN [estado |-> "limpio", excepcion |-> "sin_contacto", errores |-> {}, edad |-> None]
               ELSE IF equipo # None /\ ~Val(equipo).entrenador_activo
               THEN [estado |-> "limpio", excepcion |-> "entrenador_inactivo", errores |-> {}, edad |-> None]
               ELSE [estado |-> "limpio", excepcion |-> "",
                     errores |-> validar_edad_vs_categoria(fecha_nacimiento, equipo),
                     edad |-> edad_evaluada(fecha_nacimiento, equipo)]
    /\ UNCHANGED <<hoy, cleaned_data, form_B, varsActividades, varsSolapamiento, varsAsistencia, varsConcurrencia, varsEvaluaciones, varsClub>>

(***************************************************************************)
(* Policy B: app/forms.py, UsuarioCrearForm                                 *)
(***************************************************************************)
\* Variant: no adjustment for a birthday still to come this year
calcular_edad_Mut(fecha_nacimiento) ==
    hoy.year - fecha_nacimiento.year

calcular_edad(fecha_nacimiento) ==
    LET edad == hoy.year - fecha_nacimiento.year
    IN  IF TuplaMenor(hoy.month, hoy.day, fecha_nacimiento.month, fecha_nacimiento.day)
        THEN edad - 1
        ELSE edad

Txt_sub_14 == <<"s", "u", "b", "-", "1", "4">>
Txt_sub14  == <<"s", "u", "b", "1", "4">>
Txt_sub_16 == <<"s", "u", "b", "-", "1", "6">>
Txt_sub16  == <<"s", "u", "b", "1", "6">>
Txt_sub_18 == <<"s", "u", "b", "-", "1", "8">>
Txt_sub18  == <<"s", "u", "b", "1", "8">>

\* edad_maxima chosen by the if/elif chain, None when no branch matches
edad_maxima_categoria(categoria_slug) ==
    IF Contiene(Txt_sub_14, categoria_slug) \/ Contiene(Txt_sub14, categoria_slug) THEN Some(14)
    ELSE IF Contiene(Txt_sub_16, categoria_slug) \/ Contiene(Txt_sub16, categoria_slug) THEN Some(16)
    ELSE IF Contiene(Txt_sub_18, categoria_slug) \/ Contiene(Txt_sub18, categoria_slug) THEN Some(18)
    ELSE None

\* Variant: the age equal to the maximum is rejected too
validar_edad_categoria_Mut(fecha_nacimiento, equipo) ==
    IF fecha_nacimiento = None \/ equipo = None THEN [raise |-> FALSE, ret |-> None]
    ELSE LET edad == calcular_edad(Val(fecha_nacimiento))
             categoria_slug == lower(Val(Val(equipo).categoria).slug)
             edad_maxima == edad_maxima_categoria(categoria_slug)
         IN  IF edad_maxima = None THEN [raise |-> FALSE, ret |-> None]
             ELSE IF edad >= Val(edad_maxima)
             THEN [raise |-> TRUE, edad |-> edad, edad_maxima |-> Val(edad_maxima)]
             ELSE [raise |-> FALSE, ret |-> Some(edad)]

\* Result: [raise |-> TRUE, edad, edad_maxima] for a ValidationError,
\*         [raise |-> FALSE, ret |-> None or Some(edad)] for a return
validar_edad_categoria(fecha_nacimiento, equipo) ==
    IF fecha_nacimiento = None \/ equipo = None THEN [raise |-> FALSE, ret |-> None]
    ELSE LET edad == calcular_edad(Val(fecha_nacimiento))
             categoria_slug == lower(Val(Val(equipo).categoria).slug)
             edad_maxima == edad_maxima_categoria(categoria_slug)
         IN  IF edad_maxima = None THEN [raise |-> FALSE, ret |-> None]
             ELSE IF edad > Val(edad_maxima)
             THEN [raise |-> TRUE, edad |-> edad, edad_maxima |-> Val(edad_maxima)]
             ELSE [raise |-> FALSE, ret |-> Some(edad)]

\* The age/category part of UsuarioCrearForm.clean (UsuarioEditarForm.clean repeats it)
UsuarioCrearForm_clean ==
    /\ form_B.estado = "pendiente"
    /\ \E tipo \in {PerfilTipo_JUGADOR, PerfilTipo_ENTRENADOR} :
         LET fecha_nacimiento == cleaned_data.fecha_nacimiento
             equipo == cleaned_data.equipo
             r == validar_edad_categoria(fecha_nacimiento, equipo)
             e1 == IF fecha_nacimiento = None
                   THEN {[campo |-> "fecha_nacimiento", error |-> "obligatoria"]}
                   ELSE {}
             e2 == IF fecha_nacimiento # None /\ equipo # None /\ r.raise
                   THEN {[campo |-> "fecha_nacimiento", error |-> "edad_excede",
                          edad |-> r.edad, edad_maxima |-> r.edad_maxima],
                         [campo |-> "equipo", error |-> "categoria_no_apropiada"]}
                   ELSE {}
         IN  form_B' =
               IF tipo # PerfilTipo_JUGADOR
               THEN [estado |-> "limpio", tipo |-> tipo, validado |-> FALSE, errores |-> {}, edad_calculada |-> None]
               ELSE [estado |-> "limpio", tipo |-> tipo,
                     validado |-> (fecha_nacimiento # None /\ equipo # None),
                     errores |-> e1 \cup e2,
                     edad_calculada |->
                        IF fecha_nacimiento # None /\ equipo # None /\ ~r.raise
                        THEN r.ret ELSE None]
    /\ UNCHANGED <<hoy, cleaned_data, form_A, varsActividades, varsSolapamiento, varsAsistencia, varsConcurrencia, varsEvaluaciones, varsClub>>

(***************************************************************************)
(* Specification of the eligibility forms                                   *)
(***************************************************************************)
InitElegibilidad ==
    /\ hoy \in HoyPosibles
    /\ cleaned_data \in [fecha_nacimiento : {None} \cup {Some(f) : f \in FechasNacimiento},
                         equipo : {None} \cup {Some(e) : e \in EquiposFormulario}]
    /\ form_A = Pendiente
    /\ form_B = Pendiente
    /\ actividades = <<>>
    /\ mensaje = Pendiente
    /\ candidato = None
    /\ conflictos = Pendiente
    /\ asistencias = <<>>
    /\ en_curso = <<>>
    /\ evaluaciones = <<>>
    /\ tabla_equipos = <<>>
    /\ tabla_jugadores = <<>>

NextElegibilidad == JugadorForm_clean \/ UsuarioCrearForm_clean

SpecElegibilidad == InitElegibilidad /\ [][NextElegibilidad]_vars

(***************************************************************************)
(* Repeated calls of the two validators on one submission while the date    *)
(* returned by date.today() advances                                        *)
(***************************************************************************)
MaxEvaluaciones == 2

\* Order of datetime.date values
FechaMenor(a, b) ==
    \/ a.year < b.year
    \/ a.year = b.year /\ TuplaMenor(a.month, a.day, b.month, b.day)

\* Teams of the submissions evaluated repeatedly: categories both policies
\* read as sub-14, and one each for sub-16 and sub-18
EquiposEvaluados ==
    {[categoria |-> Some(c), entrenador_activo |-> TRUE] : c \in
        {[nombre |-> Some(sub_14), slug |-> <<"s", "u", "b", "-", "1", "4">>],
         [nombre |-> Some(sub_16), slug |-> <<"s", "u", "b", "1", "6">>],
         [nombre |-> Some(sub_18), slug |-> <<"s", "u", "b", "-", "1", "8">>]}}

\* A call of _validar_edad_vs_categoria (form.py:137-167): the age it evaluates
\* and whether it leaves the form without error
evaluar_politica_A ==
    /\ Len(evaluaciones) < MaxEvaluaciones
    /\ evaluaciones' = Append(evaluaciones,
          [politica |-> "A", hoy |-> hoy,
           edad |-> edad_evaluada(cleaned_data.fecha_nacimiento, cleaned_data.equipo),
           aceptado |->
              validar_edad_vs_categoria(cleaned_data.fecha_nacimiento, cleaned_data.equipo) = {}])
    /\ UNCHANGED <<varsElegibilidad, varsActividades, varsSolapamiento, varsAsistencia,
                   varsConcurrencia, varsClub>>

\* A call of validar_edad_categoria (forms.py:123-160): the age it computes and
\* whether it returns without ValidationError
evaluar_politica_B ==
    /\ Len(evaluaciones) < MaxEvaluaciones
    /\ evaluaciones' = Append(evaluaciones,
          [politica |-> "B", hoy |-> hoy,
           edad |-> Some(calcular_edad(Val(cleaned_data.fecha_nacimiento))),
           aceptado |->
              ~validar_edad_categoria(cleaned_data.fecha_nacimiento, cleaned_data.equipo).raise])
    /\ UNCHANGED <<varsElegibilidad, varsActividades, varsSolapamiento, varsAsistencia,
                   varsConcurrencia, varsClub>>

\* Time passes between two calls: date.today() returns a later date
pasar_tiempo ==
    /\ \E d \in HoyPosibles : FechaMenor(hoy, d) /\ hoy' = d
    /\ UNCHANGED <<cleaned_data, form_A, form_B, varsActividades, varsSolapamiento,
                   varsAsistencia, varsConcurrencia, varsEvaluaciones, varsClub>>

InitEvaluaciones ==
    /\ hoy \in HoyPosibles
    /\ cleaned_data \in [fecha_nacimiento : {Some(Fecha(y, 6, 15)) : y \in AniosNac},
                         equipo : {Some(e) : e \in EquiposEvaluados}]
    /\ form_A = Pendiente
    /\ form_B = Pendiente
    /\ actividades = <<>>
    /\ mensaje = Pendiente
    /\ candidato = None
    /\ conflictos = Pendiente
    /\ asistencias = <<>>
    /\ en_curso = <<>>
    /\ evaluaciones = <<>>
    /\ tabla_equipos = <<>>
    /\ tabla_jugadores = <<>>

NextEvaluaciones == evaluar_politica_A \/ evaluar_politica_B \/ pasar_tiempo

SpecEvaluaciones == InitEvaluaciones /\ [][NextEvaluaciones]_vars

(***************************************************************************)
(* Activities: tables Equipo and ActividadDeportiva (app/models.py)         *)
(***************************************************************************)
NumEquipos == 2
NumEntrenadores == 2
MaxFecha == 2
MaxHora == 3
MaxActividades == 2

\* Equipo rows: pk -> entrenador_id (models.py:148); the coaches are the Perfil
\* rows of type ENTRENADOR
Equipos == 1..NumEquipos
Entrenadores == 1..NumEntrenadores
Equipo_entrenador_id == [e \in Equipos |-> ((e - 1) % NumEntrenadores) + 1]

ActividadTipos == {"ENTRENAMIENTO", "PARTIDO"}

\* Dates of activities are day numbers, times are hour numbers
Fechas == 1..MaxFecha
HorasInicio == {None} \cup {Some(h) : h \in 1..(MaxHora - 1)}
HorasFin    == {None} \cup {Some(h) : h \in 2..MaxHora}

\* Python truth value of an optional time / id:  not x  is  x = None
Falsy(o) == o = None

\* A new ActividadDeportiva row as objects.create(titulo, tipo, fecha_inicio,
\* fecha_fin, descripcion) leaves it: no times, no responsible coach
NuevaActividad(tipo, fecha_inicio, fecha_fin, equipos) ==
    [tipo |-> tipo, fecha_inicio |-> fecha_inicio, fecha_fin |-> fecha_fin,
     hora_inicio |-> None, hora_fin |-> None,
     equipos |-> equipos, entrenador_responsable_id |-> None]

(***************************************************************************)
(* Views actividades_crear / actividades_editar (app/views.py)              *)
(***************************************************************************)
\* Text of a POSTed date: <<>> is the empty string, <<0>> a text strptime
\* rejects, <<d>> the ISO text of day d
\* datetime.strptime(texto, "%Y-%m-%d").date(): None stands for ValueError
strptime(texto) == IF texto # <<>> /\ texto[1] \in Fechas THEN Some(texto[1]) ELSE None

\* request.POST.getlist("equipos"): ids of Equipo rows, one team or all of them;
\* NumEquipos + 1 is the id of no Equipo row
EquiposIdsPOST == {{e} : e \in Equipos} \cup {Equipos}

\* Requests: the well-formed POSTs of an administrator with the end date left
\* empty (a match on any day, a training on day 1), two with an end date, and
\* one request for each other exit of the views
PeticionBase ==
    [admin |-> TRUE, method |-> "POST", titulo |-> "t", tipo |-> "PARTIDO",
     fecha_inicio |-> <<1>>, fecha_fin |-> <<>>, equipos |-> {1}]

PeticionesActividad ==
    { [PeticionBase EXCEPT !.fecha_inicio = <<d>>, !.equipos = eq] :
         d \in Fechas, eq \in EquiposIdsPOST }
    \cup { [PeticionBase EXCEPT !.tipo = "ENTRENAMIENTO", !.equipos = eq] : eq \in EquiposIdsPOST }
    \cup { [PeticionBase EXCEPT !.fecha_fin = <<MaxFecha>>],
           [PeticionBase EXCEPT !.fecha_inicio = <<MaxFecha>>, !.fecha_fin = <<1>>],
           [PeticionBase EXCEPT !.admin = FALSE],
           [PeticionBase EXCEPT !.method = "GET"],
           [PeticionBase EXCEPT !.titulo = ""],
           [PeticionBase EXCEPT !.tipo = ""],
           [PeticionBase EXCEPT !.fecha_inicio = <<>>],
           [PeticionBase EXCEPT !.fecha_inicio = <<0>>],
           [PeticionBase EXCEPT !.fecha_fin = <<0>>],
           [PeticionBase EXCEPT !.equipos = {}],
           [PeticionBase EXCEPT !.equipos = {NumEquipos + 1}] }

\* The request served and the response to it: the message shown (texto) and the
\* team names listed in it; actividad_id is 0 for actividades_crear
Respuesta(vista, p, actividad_id, texto, equipos) ==
    [estado |-> "respuesta", vista |-> vista, peticion |-> p, actividad_id |-> actividad_id,
     texto |-> texto, equipos |-> equipos]

\* Variant: the kind of the activity is not part of the filter
actividades_en_conflicto_Mut(equipos_ids, tipo, fecha_inicio_obj, excluir) ==
    {pk \in DOMAIN actividades :
        /\ Some(pk) # excluir
        /\ actividades[pk].equipos \cap equipos_ids # {}
        /\ actividades[pk].fecha_inicio = fecha_inicio_obj}

\* Variant: a stored activity with a timetable is left to the time-overlap rule
actividades_en_conflicto_MutHorario(equipos_ids, tipo, fecha_inicio_obj, excluir) ==
    {pk \in DOMAIN actividades :
        /\ Some(pk) # excluir
        /\ actividades[pk].equipos \cap equipos_ids # {}
        /\ actividades[pk].tipo = tipo
        /\ actividades[pk].fecha_inicio = fecha_inicio_obj
        /\ (actividades[pk].hora_inicio = None \/ actividades[pk].hora_fin = None)}

\* Variant: only the first of the selected teams is looked up
actividades_en_conflicto_MutPrimerEquipo(equipos_ids, tipo, fecha_inicio_obj, excluir) ==
    {pk \in DOMAIN actividades :
        /\ Some(pk) # excluir
        /\ \E e \in actividades[pk].equipos \cap equipos_ids : \A x \in equipos_ids : e <= x
        /\ actividades[pk].tipo = tipo
        /\ actividades[pk].fecha_inicio = fecha_inicio_obj}

\* ActividadDeportiva.objects.filter(equipos__id__in=equipos_ids, tipo=tipo,
\*     fecha_inicio=fecha_inicio_obj)[.exclude(pk=actividad_id)].distinct()
actividades_en_conflicto(equipos_ids, tipo, fecha_inicio_obj, excluir) ==
    {pk \in DOMAIN actividades :
        /\ Some(pk) # excluir
        /\ actividades[pk].equipos \cap equipos_ids # {}
        /\ actividades[pk].tipo = tipo
        /\ actividades[pk].fecha_inicio = fecha_inicio_obj}

\* Variant: every selected team is named
nombres_equipos_en_conflicto_Mut(en_conflicto, equipos_ids) ==
    {e \in Equipos : e \in equipos_ids}

\* Equipo.objects.filter(actividades__in=..., id__in=equipos_ids).distinct()
nombres_equipos_en_conflicto(en_conflicto, equipos_ids) ==
    {e \in Equipos : e \in equipos_ids /\ \E pk \in en_conflicto : e \in actividades[pk].equipos}

\* Variant: the end date is not compared with the start date
error_formulario_Mut(p) ==
    IF p.titulo = "" THEN "titulo_obligatorio"
    ELSE IF p.tipo = "" THEN "tipo_obligatorio"
    ELSE IF p.fecha_inicio = <<>> THEN "fecha_inicio_obligatoria"
    ELSE IF p.equipos = {} THEN "equipos_obligatorios"
    ELSE IF strptime(p.fecha_inicio) = None THEN "formato_fecha_invalido"
    ELSE IF p.fecha_fin # <<>> /\ strptime(p.fecha_fin) = None THEN "formato_fecha_invalido"
    ELSE ""

\* The validation chain shared by both views, up to the conflict query:
\* "" when the request passes, otherwise the error shown
error_formulario(p) ==
    IF p.titulo = "" THEN "titulo_obligatorio"
    ELSE IF p.tipo = "" THEN "tipo_obligatorio"
    ELSE IF p.fecha_inicio = <<>> THEN "fecha_inicio_obligatoria"
    ELSE IF p.equipos = {} THEN "equipos_obligatorios"
    ELSE IF strptime(p.fecha_inicio) = None THEN "formato_fecha_invalido"
    ELSE IF p.fecha_fin # <<>> /\ strptime(p.fecha_fin) = None THEN "formato_fecha_invalido"
    ELSE IF (IF p.fecha_fin = <<>> THEN Val(strptime(p.fecha_inicio)) ELSE Val(strptime(p.fecha_fin)))
              < Val(strptime(p.fecha_inicio)) THEN "fecha_fin_anterior"
    ELSE ""

fecha_fin_obj(p) ==
    IF p.fecha_fin = <<>> THEN Val(strptime(p.fecha_inicio)) ELSE Val(strptime(p.fecha_fin))

actividades_crear(p) ==
    /\ mensaje.estado = "pendiente"
    /\ IF ~p.admin
       THEN /\ mensaje' = Respuesta("crear", p, 0, "sin_permiso", {})
            /\ UNCHANGED actividades
       ELSE IF p.method # "POST"
       THEN /\ mensaje' = Respuesta("crear", p, 0, "formulario", {})
            /\ UNCHANGED actividades
       ELSE IF error_formulario(p) # ""
       THEN /\ mensaje' = Respuesta("crear", p, 0, error_formulario(p), {})
            /\ UNCHANGED actividades
       ELSE LET fecha_inicio_obj == Val(strptime(p.fecha_inicio))
                en_conflicto == actividades_en_conflicto(p.equipos, p.tipo, fecha_inicio_obj, None)
            IN  IF en_conflicto # {}
                THEN /\ mensaje' = Respuesta("crear", p, 0, "conflicto",
                                             nombres_equipos_en_conflicto(en_conflicto, p.equipos))
                     /\ UNCHANGED actividades
                ELSE /\ Len(actividades) < MaxActividades
                     /\ actividades' = Append(actividades,
                            NuevaActividad(p.tipo, fecha_inicio_obj, fecha_fin_obj(p),
                                           p.equipos \cap Equipos))
                     /\ mensaje' = Respuesta("crear", p, 0, "creada", {})
    /\ UNCHANGED <<varsElegibilidad, varsSolapamiento, varsAsistencia, varsConcurrencia, varsEvaluaciones, varsClub>>

actividades_editar(p, actividad_id) ==
    /\ mensaje.estado = "pendiente"
    /\ IF ~p.admin
       THEN /\ mensaje' = Respuesta("editar", p, actividad_id, "sin_permiso", {})
            /\ UNCHANGED actividades
       ELSE IF actividad_id \notin DOMAIN actividades
       THEN /\ mensaje' = Respuesta("editar", p, actividad_id, "404", {})
            /\ UNCHANGED actividades
       ELSE IF p.method # "POST"
       THEN /\ mensaje' = Respuesta("editar", p, actividad_id, "formulario", {})
            /\ UNCHANGED actividades
       ELSE IF error_formulario(p) # ""
       THEN /\ mensaje' = Respuesta("editar", p, actividad_id, error_formulario(p), {})
            /\ UNCHANGED actividades
       ELSE LET fecha_inicio_obj == Val(strptime(p.fecha_inicio))
                en_conflicto == actividades_en_conflicto(p.equipos, p.tipo, fecha_inicio_obj,
                                                         Some(actividad_id))
            IN  IF en_conflicto # {}
                THEN /\ mensaje' = Respuesta("editar", p, actividad_id, "conflicto",
                                             nombres_equipos_en_conflicto(en_conflicto, p.equipos))
                     /\ UNCHANGED actividades
                ELSE /\ actividades' =
                          [actividades EXCEPT ![actividad_id] =
                              [@ EXCEPT !.tipo = p.tipo,
                                        !.fecha_inicio = fecha_inicio_obj,
                                        !.fecha_fin = fecha_fin_obj(p),
                                        !.equipos = p.equipos \cap Equipos]]
                     /\ mensaje' = Respuesta("editar", p, actividad_id, "actualizada", {})
    /\ UNCHANGED <<varsElegibilidad, varsSolapamiento, varsAsistencia, varsConcurrencia, varsEvaluaciones, varsClub>>

\* The response is rendered (redirect to the list, or the form again) and its
\* messages are shown once; the views serve one request at a time
respuesta_entregada ==
    /\ mensaje.estado = "respuesta"
    /\ mensaje' = Pendiente
    /\ UNCHANGED <<actividades, varsElegibilidad, varsSolapamiento, varsAsistencia, varsConcurrencia, varsEvaluaciones, varsClub>>

\* Activities already stored when the views start serving: none, or two rows
\* of different teams on one day with timetables that do not overlap
ConHorario(fila, h) == [fila EXCEPT !.hora_inicio = h[1], !.hora_fin = h[2]]

ActividadesIniciales ==
    {<<>>}
    \cup { <<ConHorario(NuevaActividad(t, f, f, {1}), <<Some(1), Some(2)>>),
             ConHorario(NuevaActividad(t, f, f, {2}), <<Some(2), Some(MaxHora)>>)>> :
             t \in ActividadTipos, f \in {1} }

Init ==
    /\ actividades \in ActividadesIniciales
    /\ mensaje = Pendiente
    /\ hoy = Fecha(2025, 6, 20)
    /\ cleaned_data = [fecha_nacimiento |-> None, equipo |-> None]
    /\ form_A = Pendiente
    /\ form_B = Pendiente
    /\ candidato = None
    /\ conflictos = Pendiente
    /\ asistencias = <<>>
    /\ en_curso = <<>>
    /\ evaluaciones = <<>>
    /\ tabla_equipos = <<>>
    /\ tabla_jugadores = <<>>

Next ==
    \/ \E p \in PeticionesActividad : actividades_crear(p)
    \/ \E p \in PeticionesActividad, actividad_id \in 1..MaxActividades :
          /\ actividad_id \in DOMAIN actividades \/ p = PeticionBase
          /\ actividades_editar(p, actividad_id)
    \/ respuesta_entregada

Spec == Init /\ [][Next]_vars

(***************************************************************************)
(* View actividad_cancelar (app/views.py) next to create and edit           *)
(***************************************************************************)
\* Reading the attribute  nombre  of a model instance: Some(value) when the
\* row has that field, None for AttributeError.  ActividadDeportiva
\* (models.py:224-242) declares no field cancelada and no motivo_cancelacion.
leer_atributo(fila, nombre) ==
    IF nombre \in DOMAIN fila THEN Some(fila[nombre]) ELSE None

\* Requests of actividad_cancelar: the reason is a text, possibly of blanks only
PeticionCancelarBase == [admin |-> TRUE, method |-> "POST", motivo |-> <<"m">>]

PeticionesCancelar ==
    { PeticionCancelarBase,
      [PeticionCancelarBase EXCEPT !.motivo = <<>>],
      [PeticionCancelarBase EXCEPT !.motivo = <<" ">>],
      [PeticionCancelarBase EXCEPT !.method = "GET"],
      [PeticionCancelarBase EXCEPT !.admin = FALSE] }

actividad_cancelar(p, actividad_id) ==
    /\ mensaje.estado = "pendiente"
    /\ IF ~p.admin
       THEN /\ mensaje' = Respuesta("cancelar", p, actividad_id, "sin_permiso", {})
            /\ UNCHANGED actividades
       ELSE IF actividad_id \notin DOMAIN actividades
       THEN /\ mensaje' = Respuesta("cancelar", p, actividad_id, "404", {})
            /\ UNCHANGED actividades
       ELSE LET actividad == actividades[actividad_id]
                cancelada == leer_atributo(actividad, "cancelada")
                motivo == strip(p.motivo)
            IN  IF cancelada = None
                THEN /\ mensaje' = Respuesta("cancelar", p, actividad_id, "AttributeError", {})
                     /\ UNCHANGED actividades
                ELSE IF Val(cancelada)
                THEN /\ mensaje' = Respuesta("cancelar", p, actividad_id, "ya_cancelada", {})
                     /\ UNCHANGED actividades
                ELSE IF p.method # "POST"
                THEN /\ mensaje' = Respuesta("cancelar", p, actividad_id, "formulario", {})
                     /\ UNCHANGED actividades
                ELSE IF motivo = <<>>
                THEN /\ mensaje' = Respuesta("cancelar", p, actividad_id, "motivo_obligatorio", {})
                     /\ UNCHANGED actividades
                ELSE /\ actividades' =
                          [actividades EXCEPT ![actividad_id] =
                              [@ EXCEPT !.cancelada = TRUE, !.motivo_cancelacion = motivo]]
                     /\ mensaje' = Respuesta("cancelar", p, actividad_id, "cancelada", {})
    /\ UNCHANGED <<varsElegibilidad, varsSolapamiento, varsAsistencia, varsConcurrencia,
                   varsEvaluaciones, varsClub>>

NextCancelacion ==
    \/ \E p \in PeticionesActividad : actividades_crear(p)
    \/ \E p \in PeticionesActividad, actividad_id \in 1..MaxActividades :
          /\ actividad_id \in DOMAIN actividades \/ p = PeticionBase
          /\ actividades_editar(p, actividad_id)
    \/ \E p \in PeticionesCancelar, actividad_id \in 1..MaxActividades :
          /\ actividad_id \in DOMAIN actividades \/ p = PeticionCancelarBase
          /\ actividad_cancelar(p, actividad_id)
    \/ respuesta_entregada

SpecCancelacion == Init /\ [][NextCancelacion]_vars

(***************************************************************************)
(* Time-overlap checks of ActividadDeportiva (app/models.py)                *)
(*   tabla is the ActividadDeportiva table the queries run on (pk -> row),  *)
(*   self the activity the method is called on: a row plus its pk (None     *)
(*   before the first save).  A returned list follows the order of tabla.   *)
(***************************************************************************)
\* Variant: only the start of self is compared with the end of the other
horarios_solapan_Mut(self, actividad) ==
    Val(self.hora_inicio) < Val(actividad.hora_fin)

\* self.hora_inicio < actividad.hora_fin and self.hora_fin > actividad.hora_inicio
horarios_solapan(self, actividad) ==
    /\ Val(self.hora_inicio) < Val(actividad.hora_fin)
    /\ Val(self.hora_fin) > Val(actividad.hora_inicio)

\* filter(fecha_inicio__lte=self.fecha_fin, fecha_fin__gte=self.fecha_inicio).exclude(pk=self.pk)
en_rango_de_fechas(tabla, self) ==
    {pk \in DOMAIN tabla :
        /\ tabla[pk].fecha_inicio <= self.fecha_fin
        /\ tabla[pk].fecha_fin >= self.fecha_inicio
        /\ Some(pk) # self.pk}

\* The pks of a set in the order of the table
EnOrden(tabla, pks) ==
    LET Dentro(pk) == pk \in pks
    IN  SelectSeq([i \in 1..Len(tabla) |-> i], Dentro)

\* Variant: every activity of the date range with overlapping times is reported
solapamiento_equipos_bucle_MutRango(tabla, self, equipos_ids) ==
    LET en_conflicto ==
            {pk \in en_rango_de_fechas(tabla, self) :
                /\ tabla[pk].equipos \cap equipos_ids # {}
                /\ ~Falsy(tabla[pk].hora_inicio) /\ ~Falsy(tabla[pk].hora_fin)
                /\ horarios_solapan(self, tabla[pk])}
        orden == EnOrden(tabla, en_conflicto)
        conflictos_lista ==
            [i \in 1..Len(orden) |->
                [actividad |-> orden[i],
                 equipos_comunes |-> equipos_ids \cap tabla[orden[i]].equipos,
                 tipo |-> "equipo"]]
    IN  IF conflictos_lista = <<>> THEN None ELSE Some(conflictos_lista)

\* Lines 279-301: the query and the loop of verificar_solapamiento_equipos
solapamiento_equipos_bucle(tabla, self, equipos_ids) ==
    LET actividades_solapadas ==
            {pk \in en_rango_de_fechas(tabla, self) : tabla[pk].equipos \cap equipos_ids # {}}
        en_conflicto ==
            {pk \in actividades_solapadas :
                /\ ~Falsy(tabla[pk].hora_inicio) /\ ~Falsy(tabla[pk].hora_fin)
                /\ self.fecha_inicio <= tabla[pk].fecha_fin
                /\ self.fecha_fin >= tabla[pk].fecha_inicio
                /\ self.fecha_inicio = tabla[pk].fecha_inicio
                /\ horarios_solapan(self, tabla[pk])}
        orden == EnOrden(tabla, en_conflicto)
        conflictos_lista ==
            [i \in 1..Len(orden) |->
                [actividad |-> orden[i],
                 equipos_comunes |-> equipos_ids \cap tabla[orden[i]].equipos,
                 tipo |-> "equipo"]]
    IN  IF conflictos_lista = <<>> THEN None ELSE Some(conflictos_lista)

\* Variant: an activity without a complete timetable is taken to last all day
verificar_solapamiento_equipos_Mut(tabla, self, equipos_ids) ==
    solapamiento_equipos_bucle(tabla,
        [self EXCEPT !.hora_inicio = IF @ = None THEN Some(1) ELSE @,
                     !.hora_fin = IF @ = None THEN Some(MaxHora) ELSE @],
        equipos_ids)

verificar_solapamiento_equipos(tabla, self, equipos_ids) ==
    IF Falsy(self.hora_inicio) \/ Falsy(self.hora_fin) THEN None
    ELSE solapamiento_equipos_bucle(tabla, self, equipos_ids)

\* Lines 319-324: activities of the teams the coach directs
actividades_equipos(tabla, self, entrenador_id) ==
    LET equipos_entrenador == {e \in Equipos : Some(Equipo_entrenador_id[e]) = entrenador_id}
    IN  {pk \in en_rango_de_fechas(tabla, self) : tabla[pk].equipos \cap equipos_entrenador # {}}

\* Lines 312-316: activities the coach is responsible for
actividades_entrenador(tabla, self, entrenador_id) ==
    {pk \in en_rango_de_fechas(tabla, self) : tabla[pk].entrenador_responsable_id = entrenador_id}

\* The operator | of two QuerySets (QuerySet.__or__, Query.combine): Django
\* combines only queries that agree on distinct(), otherwise it raises
\* TypeError("Cannot combine a unique query with a non-unique query.").
\* None stands for the TypeError.
combinar(izquierda, izquierda_distinct, derecha, derecha_distinct) ==
    IF izquierda_distinct # derecha_distinct THEN None ELSE Some(izquierda \cup derecha)

\* Line 327: actividades_entrenador carries no distinct() (lines 312-316),
\* actividades_equipos ends in .distinct() (line 324)
todas_actividades(tabla, self, entrenador_id) ==
    combinar(actividades_entrenador(tabla, self, entrenador_id), FALSE,
             actividades_equipos(tabla, self, entrenador_id), TRUE)

\* Result: valor is what the method returns, excepcion the exception it raises
verificar_disponibilidad_entrenador(tabla, self, entrenador_id) ==
    IF Falsy(self.hora_inicio) \/ Falsy(self.hora_fin) \/ Falsy(entrenador_id)
    THEN [excepcion |-> "", valor |-> None]
    ELSE LET todas == todas_actividades(tabla, self, entrenador_id) IN
         IF todas = None THEN [excepcion |-> "TypeError", valor |-> None]
         ELSE LET en_conflicto ==
                      {pk \in Val(todas) :
                          /\ ~Falsy(tabla[pk].hora_inicio) /\ ~Falsy(tabla[pk].hora_fin)
                          /\ self.fecha_inicio = tabla[pk].fecha_inicio
                          /\ horarios_solapan(self, tabla[pk])}
                  orden == EnOrden(tabla, en_conflicto)
                  conflictos_lista ==
                      [i \in 1..Len(orden) |-> [actividad |-> orden[i], tipo |-> "entrenador"]]
              IN  [excepcion |-> "",
                   valor |-> IF conflictos_lista = <<>> THEN None ELSE Some(conflictos_lista)]

\* The filter shared by both queries of obtener_entrenadores_disponibles:
\* fecha_inicio=self.fecha_inicio, hora_inicio__lt=self.hora_fin,
\* hora_fin__gt=self.hora_inicio (a comparison with NULL selects nothing)
coincide_en_horario(fila, self) ==
    /\ fila.fecha_inicio = self.fecha_inicio
    /\ fila.hora_inicio # None /\ Val(fila.hora_inicio) < Val(self.hora_fin)
    /\ fila.hora_fin # None /\ Val(fila.hora_fin) > Val(self.hora_inicio)

\* Lines 365-370: responsible coaches of the matching activities other than self
entrenadores_responsables_ocupados(tabla, self) ==
    {Val(tabla[pk].entrenador_responsable_id) : pk \in
        {x \in DOMAIN tabla :
            /\ coincide_en_horario(tabla[x], self)
            /\ tabla[x].entrenador_responsable_id # None
            /\ Some(x) # self.pk}}

\* Lines 375-379: Equipo rows with a matching activity, .exclude(actividades__pk=
\* self.pk) leaving out every team that takes part in the stored activity self.pk
equipos_con_actividades(tabla, self) ==
    {e \in Equipos :
        /\ \E pk \in DOMAIN tabla : e \in tabla[pk].equipos /\ coincide_en_horario(tabla[pk], self)
        /\ ~\E pk \in DOMAIN tabla : Some(pk) = self.pk /\ e \in tabla[pk].equipos}

\* activos: ids of Perfil.objects.filter(tipo=ENTRENADOR, user__is_active=True);
\* the value is the set of ids of the returned Perfil rows
obtener_entrenadores_disponibles(tabla, self, activos) ==
    IF Falsy(self.hora_inicio) \/ Falsy(self.hora_fin) THEN activos
    ELSE LET entrenadores_ocupados ==
                 entrenadores_responsables_ocupados(tabla, self)
                   \cup {Equipo_entrenador_id[e] : e \in equipos_con_actividades(tabla, self)}
         IN  activos \ entrenadores_ocupados

\* Timetables (hora_inicio, hora_fin): none, one time only, or a start before
\* an end
Horarios ==
    {<<None, None>>, <<Some(1), None>>, <<None, Some(MaxHora)>>}
    \cup {<<Some(h[1]), Some(h[2])>> : h \in {x \in (1..MaxHora) \X (1..MaxHora) : x[1] < x[2]}}

Responsables == {None} \cup {Some(c) : c \in Entrenadores}

\* Rows of ActividadDeportiva: the check constraint ck_actividad_rango_fechas
\* (models.py:246) keeps fecha_fin >= fecha_inicio
FilasActividad ==
    { [tipo |-> "PARTIDO", fecha_inicio |-> d[1], fecha_fin |-> d[2],
       hora_inicio |-> h[1], hora_fin |-> h[2],
       equipos |-> eq, entrenador_responsable_id |-> r] :
         d \in {x \in Fechas \X Fechas : x[2] >= x[1]}, h \in Horarios,
         eq \in EquiposIdsPOST, r \in Responsables }

\* Rows and timetables of the tables holding two activities
FilasDeDos ==
    { [tipo |-> "PARTIDO", fecha_inicio |-> 1, fecha_fin |-> ff,
       hora_inicio |-> h[1], hora_fin |-> h[2],
       equipos |-> eq, entrenador_responsable_id |-> r] :
         ff \in {1, MaxFecha},
         h \in {<<None, None>>, <<Some(1), Some(2)>>, <<Some(2), Some(MaxHora)>>,
                <<Some(1), Some(MaxHora)>>},
         eq \in {{1}, {NumEquipos}, Equipos}, r \in {None, Some(1)} }

HorariosCandidato == {<<Some(1), None>>, <<Some(1), Some(2)>>, <<Some(1), Some(MaxHora)>>}

\* Activities the checks are called on: a new one (pk None) with the teams and
\* the coach selected for it, or a stored one with its timetable edited
Candidatos(tabla) ==
    IF Len(tabla) = 1
    THEN { [pk |-> None] @@ f : f \in FilasActividad }
         \cup { [pk |-> None] @@ [f EXCEPT !.equipos = {}] : f \in FilasActividad }
         \cup { [pk |-> Some(1)] @@ [tabla[1] EXCEPT !.hora_inicio = h[1], !.hora_fin = h[2]] :
                  h \in Horarios }
    ELSE { [pk |-> None, tipo |-> "PARTIDO", fecha_inicio |-> d[1], fecha_fin |-> d[2],
            hora_inicio |-> h[1], hora_fin |-> h[2],
            equipos |-> eq, entrenador_responsable_id |-> r] :
              d \in {<<1, 1>>, <<1, MaxFecha>>, <<MaxFecha, MaxFecha>>},
              h \in HorariosCandidato,
              eq \in {{}, {1}, Equipos}, r \in {None, Some(1)} }
         \cup { [pk |-> Some(k)] @@ [tabla[k] EXCEPT !.hora_inicio = h[1], !.hora_fin = h[2]] :
                  k \in DOMAIN tabla, h \in HorariosCandidato }

llamar_verificar_solapamiento_equipos ==
    /\ conflictos.estado = "pendiente"
    /\ \E self \in Candidatos(actividades) :
         /\ candidato' = Some(self)
         /\ conflictos' = [estado |-> "hecho", metodo |-> "equipos", excepcion |-> "",
                           valor |-> verificar_solapamiento_equipos(actividades, self, self.equipos)]
    /\ UNCHANGED <<actividades, mensaje, varsElegibilidad, varsAsistencia, varsConcurrencia, varsEvaluaciones, varsClub>>

llamar_verificar_disponibilidad_entrenador ==
    /\ conflictos.estado = "pendiente"
    /\ \E self \in Candidatos(actividades) :
         /\ candidato' = Some(self)
         /\ LET r == verificar_disponibilidad_entrenador(actividades, self,
                                                         self.entrenador_responsable_id)
            IN  conflictos' = [estado |-> "hecho", metodo |-> "entrenador",
                               excepcion |-> r.excepcion, valor |-> r.valor]
    /\ UNCHANGED <<actividades, mensaje, varsElegibilidad, varsAsistencia, varsConcurrencia, varsEvaluaciones, varsClub>>

InitSolapamiento ==
    /\ actividades \in {<<f>> : f \in FilasActividad}
    /\ mensaje = Pendiente
    /\ candidato = None
    /\ conflictos = Pendiente
    /\ hoy = Fecha(2025, 6, 20)
    /\ cleaned_data = [fecha_nacimiento |-> None, equipo |-> None]
    /\ form_A = Pendiente
    /\ form_B = Pendiente
    /\ asistencias = <<>>
    /\ en_curso = <<>>
    /\ evaluaciones = <<>>
    /\ tabla_equipos = <<>>
    /\ tabla_jugadores = <<>>

NextSolapamiento ==
    \/ llamar_verificar_solapamiento_equipos
    \/ llamar_verificar_disponibilidad_entrenador

SpecSolapamiento == InitSolapamiento /\ [][NextSolapamiento]_vars

\* Active coaches: all of them, or coach 1 only
ActivosPosibles == {Entrenadores, {1}}

llamar_obtener_entrenadores_disponibles ==
    /\ conflictos.estado = "pendiente"
    /\ \E self \in Candidatos(actividades), activos \in ActivosPosibles :
         /\ candidato' = Some(self)
         /\ conflictos' = [estado |-> "hecho", metodo |-> "disponibles", excepcion |-> "",
                           valor |-> None, activos |-> activos,
                           disponibles |-> obtener_entrenadores_disponibles(actividades, self,
                                                                            activos)]
    /\ UNCHANGED <<actividades, mensaje, varsElegibilidad, varsAsistencia, varsConcurrencia, varsEvaluaciones, varsClub>>

\* The checks on a table of two stored activities
InitConflictos ==
    /\ actividades \in {<<f, g>> : f \in FilasDeDos, g \in FilasDeDos}
    /\ mensaje = Pendiente
    /\ candidato = None
    /\ conflictos = Pendiente
    /\ hoy = Fecha(2025, 6, 20)
    /\ cleaned_data = [fecha_nacimiento |-> None, equipo |-> None]
    /\ form_A = Pendiente
    /\ form_B = Pendiente
    /\ asistencias = <<>>
    /\ en_curso = <<>>
    /\ evaluaciones = <<>>
    /\ tabla_equipos = <<>>
    /\ tabla_jugadores = <<>>

NextConflictos ==
    \/ llamar_verificar_solapamiento_equipos
    \/ llamar_verificar_disponibilidad_entrenador
    \/ llamar_obtener_entrenadores_disponibles

SpecConflictos == InitConflictos /\ [][NextConflictos]_vars

(***************************************************************************)
(* ActividadDeportiva.clean (app/models.py)                                 *)
(***************************************************************************)
\* Variant: equal times pass
ActividadDeportiva_clean_Mut(self) ==
    IF Falsy(self.hora_inicio) \/ Falsy(self.hora_fin) THEN {}
    ELSE IF Val(self.hora_fin) < Val(self.hora_inicio)
    THEN {[campo |-> "hora_fin", error |-> "debe_ser_posterior"]}
    ELSE {}

\* The errors of the ValidationError the method raises, {} when it returns
ActividadDeportiva_clean(self) ==
    IF Falsy(self.hora_inicio) \/ Falsy(self.hora_fin) THEN {}
    ELSE IF Val(self.hora_fin) <= Val(self.hora_inicio)
    THEN {[campo |-> "hora_fin", error |-> "debe_ser_posterior"]}
    ELSE {}

\* Activities clean is called on: any pair of times, in either order or equal
HorasCualesquiera == {None} \cup {Some(h) : h \in 1..MaxHora}

InstanciasActividad ==
    { [pk |-> None, tipo |-> t, fecha_inicio |-> d[1], fecha_fin |-> d[2],
       hora_inicio |-> hi, hora_fin |-> hf,
       equipos |-> {}, entrenador_responsable_id |-> None] :
         t \in {"PARTIDO", "ENTRENAMIENTO"},
         d \in {x \in Fechas \X Fechas : x[2] >= x[1]},
         hi \in HorasCualesquiera, hf \in HorasCualesquiera }

llamar_clean ==
    /\ conflictos.estado = "pendiente"
    /\ candidato # None
    /\ conflictos' = [estado |-> "hecho", metodo |-> "clean",
                      excepcion |-> IF ActividadDeportiva_clean(Val(candidato)) = {}
                                    THEN "" ELSE "ValidationError",
                      valor |-> None,
                      errores |-> ActividadDeportiva_clean(Val(candidato))]
    /\ UNCHANGED <<candidato, actividades, mensaje, varsElegibilidad, varsAsistencia,
                   varsConcurrencia, varsEvaluaciones, varsClub>>

InitValidacion ==
    /\ actividades = <<>>
    /\ mensaje = Pendiente
    /\ candidato \in {Some(a) : a \in InstanciasActividad}
    /\ conflictos = Pendiente
    /\ hoy = Fecha(2025, 6, 20)
    /\ cleaned_data = [fecha_nacimiento |-> None, equipo |-> None]
    /\ form_A = Pendiente
    /\ form_B = Pendiente
    /\ asistencias = <<>>
    /\ en_curso = <<>>
    /\ evaluaciones = <<>>
    /\ tabla_equipos = <<>>
    /\ tabla_jugadores = <<>>

NextValidacion == llamar_clean

SpecValidacion == InitValidacion /\ [][NextValidacion]_vars

(***************************************************************************)
(* View asistencias_registrar (app/views.py) on the tables Asistencia,      *)
(* Jugador and ActividadDeportiva.  In this part  hoy  is the day number of *)
(* timezone.localtime().date().                                             *)
(***************************************************************************)
NumJugadores == 2
MaxAsistencias == 2

PerfilTipo_ADMIN == "ADMIN"
PerfilTipo_EQUIPO_ADMIN == "EQUIP"
AsistenciaEstado_PRESENTE == "P"
AsistenciaEstado_AUSENTE == "A"

\* Jugador rows: pk -> equipo_id (models.py:187)
Jugadores == 1..NumJugadores
Jugador_equipo_id == [j \in Jugadores |-> ((j - 1) % NumEquipos) + 1]

\* request.user: an administrator, the coach with Perfil 1, a player
Usuario_admin      == [tipo |-> PerfilTipo_ADMIN, perfil_id |-> 0, is_superuser |-> FALSE]
Usuario_entrenador == [tipo |-> PerfilTipo_ENTRENADOR, perfil_id |-> 1, is_superuser |-> FALSE]
Usuario_jugador    == [tipo |-> PerfilTipo_JUGADOR, perfil_id |-> 0, is_superuser |-> FALSE]

\* _es_admin_equipo(user)
es_admin_equipo(user) ==
    IF user.is_superuser THEN TRUE
    ELSE user.tipo \in {PerfilTipo_ADMIN, PerfilTipo_EQUIPO_ADMIN}

\* Variant: no stored row is matched, every submission inserts
coincidencias_Mut(tabla, jugador, actividad) == {}

\* The rows update_or_create looks up: filter(jugador=jugador, actividad=actividad)
coincidencias(tabla, jugador, actividad) ==
    {pk \in DOMAIN tabla : tabla[pk].jugador = jugador /\ tabla[pk].actividad = actividad}

\* Asistencia.objects.update_or_create(jugador=, actividad=, defaults={...})
update_or_create(tabla, jugador, actividad, defaults) ==
    LET filas == coincidencias(tabla, jugador, actividad)
    IN  IF filas = {}
        THEN [tabla |-> Append(tabla, [jugador |-> jugador, actividad |-> actividad,
                                       entrenador |-> defaults.entrenador,
                                       estado |-> defaults.estado,
                                       fecha_hora_marcaje |-> defaults.fecha_hora_marcaje]),
              created |-> TRUE, excepcion |-> ""]
        ELSE IF Cardinality(filas) = 1
        THEN LET pk == CHOOSE x \in filas : TRUE
             IN  [tabla |-> [tabla EXCEPT ![pk] =
                                [@ EXCEPT !.entrenador = defaults.entrenador,
                                          !.estado = defaults.estado,
                                          !.fecha_hora_marcaje = defaults.fecha_hora_marcaje]],
                  created |-> FALSE, excepcion |-> ""]
        ELSE [tabla |-> tabla, created |-> FALSE, excepcion |-> "MultipleObjectsReturned"]

\* One of the loops  for jugador_id in jugadores_...:  of the view, from the
\* state  r  (table, counters, exception) the previous statements left
RECURSIVE bucle_jugadores(_, _, _, _)
bucle_jugadores(r, lista, actividad, defaults) ==
    IF lista = <<>> \/ r.excepcion # "" THEN r
    ELSE IF Head(lista) \notin Jugadores
    THEN [r EXCEPT !.excepcion = "Jugador.DoesNotExist"]
    ELSE LET u == update_or_create(r.tabla, Head(lista), actividad, defaults)
         IN  bucle_jugadores(
                 [tabla |-> u.tabla,
                  registros_creados |-> r.registros_creados + BoolInt(u.created /\ u.excepcion = ""),
                  registros_actualizados |->
                      r.registros_actualizados + BoolInt(~u.created /\ u.excepcion = ""),
                  excepcion |-> u.excepcion],
                 Tail(lista), actividad, defaults)

\* Lines 1177-1214: both loops, presentes first
registrar_listas(tabla, p, actividad, entrenador_perfil, fecha_hora_obj) ==
    LET inicio == [tabla |-> tabla, registros_creados |-> 0, registros_actualizados |-> 0,
                   excepcion |-> ""]
        tras_presentes ==
            bucle_jugadores(inicio, p.presentes, actividad,
                [entrenador |-> entrenador_perfil, estado |-> AsistenciaEstado_PRESENTE,
                 fecha_hora_marcaje |-> fecha_hora_obj])
    IN  bucle_jugadores(tras_presentes, p.ausentes, actividad,
            [entrenador |-> entrenador_perfil, estado |-> AsistenciaEstado_AUSENTE,
             fecha_hora_marcaje |-> fecha_hora_obj])

RespuestaAsistencia(texto, creados, actualizados) ==
    [estado |-> "respuesta", vista |-> "asistencias_registrar", texto |-> texto,
     registros_creados |-> creados, registros_actualizados |-> actualizados]

\* The response of the view when no attendance is written, "" otherwise
error_asistencia(p) ==
    LET es_entrenador == p.user.tipo = PerfilTipo_ENTRENADOR
    IN  IF ~(es_admin_equipo(p.user) \/ es_entrenador) THEN "sin_permiso"
        ELSE IF p.method # "POST" THEN "formulario"
        ELSE IF p.actividad = None THEN "actividad_obligatoria"
        ELSE IF Val(p.actividad) \notin DOMAIN actividades THEN "actividad_no_encontrada"
        ELSE IF ~(actividades[Val(p.actividad)].fecha_inicio <= hoy
                  /\ hoy <= actividades[Val(p.actividad)].fecha_fin) THEN "fuera_de_rango"
        ELSE IF es_entrenador /\ ~p.user.is_superuser THEN ""
        ELSE IF p.entrenador = None THEN "entrenador_obligatorio"
        ELSE IF Val(p.entrenador) \notin Entrenadores THEN "entrenador_no_encontrado"
        ELSE ""

\* perfil of the coach in session, or Perfil.objects.get(pk=entrenador_id, tipo=ENTRENADOR)
entrenador_perfil(p) ==
    IF p.user.tipo = PerfilTipo_ENTRENADOR /\ ~p.user.is_superuser
    THEN p.user.perfil_id ELSE Val(p.entrenador)

asistencias_registrar(p) ==
    /\ IF error_asistencia(p) # ""
       THEN /\ mensaje' = RespuestaAsistencia(error_asistencia(p), 0, 0)
            /\ UNCHANGED asistencias
       ELSE LET r == registrar_listas(asistencias, p, Val(p.actividad), entrenador_perfil(p), hoy)
            IN  /\ Len(r.tabla) <= MaxAsistencias
                /\ asistencias' = r.tabla
                /\ mensaje' =
                      IF r.excepcion = "Jugador.DoesNotExist"
                      THEN RespuestaAsistencia("jugador_no_encontrado", 0, 0)
                      ELSE IF r.excepcion # ""
                      THEN RespuestaAsistencia("error", 0, 0)
                      ELSE RespuestaAsistencia("registradas", r.registros_creados,
                                               r.registros_actualizados)
    /\ UNCHANGED <<actividades, varsElegibilidad, varsSolapamiento, varsConcurrencia, varsEvaluaciones, varsClub>>

\* Lists of player ids posted: empty, the first or the last player once or
\* twice, both of them; NumJugadores + 1 is the id of no Jugador row
ListasJugadores ==
    {<<>>, <<1, NumJugadores>>} \cup {<<j>> : j \in {1, NumJugadores}}
    \cup {<<j, j>> : j \in {1, NumJugadores}}

PeticionAsistenciaBase ==
    [user |-> Usuario_entrenador, method |-> "POST", actividad |-> Some(1), entrenador |-> None,
     presentes |-> <<1>>, ausentes |-> <<>>]

PeticionesAsistencia ==
    { [PeticionAsistenciaBase EXCEPT !.actividad = Some(a), !.presentes = pr, !.ausentes = au] :
         a \in 1..2, pr \in ListasJugadores, au \in {<<>>, <<NumJugadores>>} }
    \cup { [PeticionAsistenciaBase EXCEPT !.user = Usuario_jugador],
           [PeticionAsistenciaBase EXCEPT !.method = "GET"],
           [PeticionAsistenciaBase EXCEPT !.actividad = None],
           [PeticionAsistenciaBase EXCEPT !.actividad = Some(3)],
           [PeticionAsistenciaBase EXCEPT !.user = Usuario_admin],
           [PeticionAsistenciaBase EXCEPT !.user = Usuario_admin, !.entrenador = Some(1)],
           [PeticionAsistenciaBase EXCEPT !.user = Usuario_admin,
                                          !.entrenador = Some(NumEntrenadores + 1)],
           [PeticionAsistenciaBase EXCEPT !.presentes = <<NumJugadores + 1>>],
           [PeticionAsistenciaBase EXCEPT !.presentes = <<1>>, !.ausentes = <<NumJugadores + 1>>] }

\* The two activities attendance is taken for: one of team 1 on day 1, one of
\* the last team or of all teams lasting from day 1 to day MaxFecha
ActividadesAsistencia ==
    { <<NuevaActividad("PARTIDO", 1, 1, {1}), NuevaActividad("PARTIDO", 1, MaxFecha, eq)>> :
         eq \in {{NumEquipos}, Equipos} }

InitAsistencia ==
    /\ actividades \in ActividadesAsistencia
    /\ asistencias = <<>>
    /\ hoy \in 1..(MaxFecha + 1)
    /\ mensaje = Pendiente
    /\ cleaned_data = [fecha_nacimiento |-> None, equipo |-> None]
    /\ form_A = Pendiente
    /\ form_B = Pendiente
    /\ candidato = None
    /\ conflictos = Pendiente
    /\ en_curso = <<>>
    /\ evaluaciones = <<>>
    /\ tabla_equipos = <<>>
    /\ tabla_jugadores = <<>>

NextAsistencia == \E p \in PeticionesAsistencia : asistencias_registrar(p)

SpecAsistencia == InitAsistencia /\ [][NextAsistencia]_vars

(***************************************************************************)
(* Views asistencias_editar / asistencias_eliminar (app/views.py)           *)
(***************************************************************************)
\* Further users: the coach with the last Perfil, a coach who is superuser
Usuario_otro_entrenador ==
    [tipo |-> PerfilTipo_ENTRENADOR, perfil_id |-> NumEntrenadores, is_superuser |-> FALSE]
Usuario_entrenador_superuser ==
    [tipo |-> PerfilTipo_ENTRENADOR, perfil_id |-> NumEntrenadores, is_superuser |-> TRUE]

RespuestaEdicion(vista, p, asistencia_id, texto) ==
    [estado |-> "respuesta", vista |-> vista, peticion |-> p, asistencia_id |-> asistencia_id,
     texto |-> texto]

\* Variant: the check of the recording coach is skipped
no_es_propia_Mut(user, asistencia) == FALSE

\* if es_entrenador and not request.user.is_superuser: if asistencia.entrenador != perfil
no_es_propia(user, asistencia) ==
    /\ user.tipo = PerfilTipo_ENTRENADOR
    /\ ~user.is_superuser
    /\ asistencia.entrenador # user.perfil_id

\* The response of asistencias_editar when nothing is written, "" otherwise
error_edicion_asistencia(p, asistencia_id) ==
    LET es_entrenador == p.user.tipo = PerfilTipo_ENTRENADOR
    IN  IF ~(es_admin_equipo(p.user) \/ es_entrenador) THEN "sin_permiso"
        ELSE IF asistencia_id \notin DOMAIN asistencias THEN "404"
        ELSE IF no_es_propia(p.user, asistencias[asistencia_id]) THEN "no_propia"
        ELSE IF p.method # "POST" THEN "formulario"
        ELSE IF p.estado = None THEN "estado_obligatorio"
        ELSE LET actividad == actividades[asistencias[asistencia_id].actividad]
             IN  IF ~(actividad.fecha_inicio <= hoy /\ hoy <= actividad.fecha_fin)
                 THEN "fuera_de_rango"
                 ELSE ""

asistencias_editar(p, asistencia_id) ==
    /\ IF error_edicion_asistencia(p, asistencia_id) # ""
       THEN /\ mensaje' = RespuestaEdicion("asistencias_editar", p, asistencia_id,
                                           error_edicion_asistencia(p, asistencia_id))
            /\ UNCHANGED asistencias
       ELSE /\ asistencias' =
                  [asistencias EXCEPT ![asistencia_id] =
                      [@ EXCEPT !.estado = Val(p.estado), !.fecha_hora_marcaje = hoy]]
            /\ mensaje' = RespuestaEdicion("asistencias_editar", p, asistencia_id, "actualizada")
    /\ UNCHANGED <<actividades, varsElegibilidad, varsSolapamiento, varsConcurrencia,
                   varsEvaluaciones, varsClub>>

\* The response of asistencias_eliminar when nothing is deleted, "" otherwise
error_eliminacion_asistencia(p, asistencia_id) ==
    LET es_entrenador == p.user.tipo = PerfilTipo_ENTRENADOR
    IN  IF p.method # "POST" THEN "no_post"
        ELSE IF ~(es_admin_equipo(p.user) \/ es_entrenador) THEN "sin_permiso"
        ELSE IF asistencia_id \notin DOMAIN asistencias THEN "404"
        ELSE IF no_es_propia(p.user, asistencias[asistencia_id]) THEN "no_propia"
        ELSE ""

\* asistencia.delete(): the row leaves the table; the rows are kept in a
\* sequence, so the ones after it move up by one position
sin_fila(tabla, pk) ==
    [i \in 1..(Len(tabla) - 1) |-> IF i < pk THEN tabla[i] ELSE tabla[i + 1]]

asistencias_eliminar(p, asistencia_id) ==
    /\ IF error_eliminacion_asistencia(p, asistencia_id) # ""
       THEN /\ mensaje' = RespuestaEdicion("asistencias_eliminar", p, asistencia_id,
                                           error_eliminacion_asistencia(p, asistencia_id))
            /\ UNCHANGED asistencias
       ELSE /\ asistencias' = sin_fila(asistencias, asistencia_id)
            /\ mensaje' = RespuestaEdicion("asistencias_eliminar", p, asistencia_id, "eliminada")
    /\ UNCHANGED <<actividades, varsElegibilidad, varsSolapamiento, varsConcurrencia,
                   varsEvaluaciones, varsClub>>

PeticionEdicionBase ==
    [user |-> Usuario_entrenador, method |-> "POST", estado |-> Some(AsistenciaEstado_AUSENTE)]

PeticionesEdicion ==
    { [PeticionEdicionBase EXCEPT !.user = u] :
         u \in {Usuario_admin, Usuario_entrenador, Usuario_otro_entrenador,
                Usuario_entrenador_superuser, Usuario_jugador} }
    \cup { [PeticionEdicionBase EXCEPT !.method = "GET"],
           [PeticionEdicionBase EXCEPT !.estado = None],
           [PeticionEdicionBase EXCEPT !.estado = Some(AsistenciaEstado_PRESENTE)] }

\* Attendance taken by either coach, or by the administrator in the name of one
PeticionesRegistro ==
    { [PeticionAsistenciaBase EXCEPT !.presentes = pr] : pr \in {<<1>>, <<1, NumJugadores>>} }
    \cup { [PeticionAsistenciaBase EXCEPT !.user = Usuario_otro_entrenador],
           [PeticionAsistenciaBase EXCEPT !.user = Usuario_admin, !.entrenador = Some(1)],
           [PeticionAsistenciaBase EXCEPT !.actividad = Some(2), !.presentes = <<NumJugadores>>] }

NextPermisos ==
    \/ \E p \in PeticionesRegistro : asistencias_registrar(p)
    \/ \E p \in PeticionesEdicion, asistencia_id \in 1..MaxAsistencias :
          /\ asistencia_id \in DOMAIN asistencias \/ p = PeticionEdicionBase
          /\ asistencias_editar(p, asistencia_id)
    \/ \E p \in PeticionesEdicion, asistencia_id \in 1..MaxAsistencias :
          /\ asistencia_id \in DOMAIN asistencias \/ p = PeticionEdicionBase
          /\ asistencias_eliminar(p, asistencia_id)

SpecPermisos == InitAsistencia /\ [][NextPermisos]_vars

\* Edits of an activity that move or stretch its dates
PeticionesCambioFecha ==
    { [PeticionBase EXCEPT !.fecha_inicio = <<d>>] : d \in {1, MaxFecha} }
    \cup { [PeticionBase EXCEPT !.fecha_fin = <<MaxFecha>>] }

NextMarcaje ==
    \/ \E p \in PeticionesRegistro : asistencias_registrar(p)
    \/ \E p \in PeticionesEdicion, asistencia_id \in 1..MaxAsistencias :
          /\ asistencia_id \in DOMAIN asistencias \/ p = PeticionEdicionBase
          /\ asistencias_editar(p, asistencia_id)
    \/ \E p \in PeticionesCambioFecha, actividad_id \in DOMAIN actividades :
          actividades_editar(p, actividad_id)
    \/ respuesta_entregada

SpecMarcaje == InitAsistencia /\ [][NextMarcaje]_vars

(***************************************************************************)
(* actividades_crear served by several workers at once: the conflict query  *)
(* (views.py:843-849) and the insert (views.py:873-882) are separate        *)
(* statements in autocommit mode, no lock or transaction spans them, and    *)
(* ActividadDeportiva.Meta declares no uniqueness over team, kind and date. *)
(***************************************************************************)
NumTrabajadores == 2

Trabajadores == 1..NumTrabajadores

Libre == [estado |-> "libre"]

\* Requests served concurrently: well-formed POSTs of an administrator
PeticionesConcurrentes ==
    { PeticionBase,
      [PeticionBase EXCEPT !.tipo = "ENTRENAMIENTO"],
      [PeticionBase EXCEPT !.equipos = Equipos] }

\* Variant: the storage layer refuses a row of the kind, start date and a team
\* of a stored row
objects_create_Mut(tabla, fila) ==
    IF \E pk \in DOMAIN tabla :
          /\ tabla[pk].tipo = fila.tipo
          /\ tabla[pk].fecha_inicio = fila.fecha_inicio
          /\ tabla[pk].equipos \cap fila.equipos # {}
    THEN tabla
    ELSE Append(tabla, fila)

\* ActividadDeportiva.objects.create(...) followed by actividad.equipos.set(equipos)
objects_create(tabla, fila) == Append(tabla, fila)

\* Worker w serves the request up to  if actividades_en_conflicto.exists()
crear_consultar(w, p) ==
    /\ en_curso[w].estado = "libre"
    /\ LET fecha_inicio_obj == Val(strptime(p.fecha_inicio))
           en_conflicto == actividades_en_conflicto(p.equipos, p.tipo, fecha_inicio_obj, None)
       IN  IF en_conflicto # {}
           THEN /\ mensaje' = Respuesta("crear", p, 0, "conflicto",
                                        nombres_equipos_en_conflicto(en_conflicto, p.equipos))
                /\ UNCHANGED en_curso
           ELSE /\ en_curso' = [en_curso EXCEPT ![w] =
                                   [estado |-> "consultado", peticion |-> p,
                                    leidas |-> Len(actividades)]]
                /\ UNCHANGED mensaje
    /\ UNCHANGED <<actividades, varsElegibilidad, varsSolapamiento, varsAsistencia, varsEvaluaciones, varsClub>>

\* Worker w goes on with the else branch: the row and its teams are written
crear_insertar(w) ==
    /\ en_curso[w].estado = "consultado"
    /\ Len(actividades) < MaxActividades
    /\ LET p == en_curso[w].peticion
       IN  /\ actividades' = objects_create(actividades,
                  NuevaActividad(p.tipo, Val(strptime(p.fecha_inicio)), fecha_fin_obj(p),
                                 p.equipos \cap Equipos))
           /\ mensaje' = Respuesta("crear", p, 0, "creada", {})
    /\ en_curso' = [en_curso EXCEPT ![w] = Libre]
    /\ UNCHANGED <<varsElegibilidad, varsSolapamiento, varsAsistencia, varsEvaluaciones, varsClub>>

InitConcurrente ==
    /\ actividades = <<>>
    /\ en_curso = [w \in Trabajadores |-> Libre]
    /\ mensaje = Pendiente
    /\ hoy = Fecha(2025, 6, 20)
    /\ cleaned_data = [fecha_nacimiento |-> None, equipo |-> None]
    /\ form_A = Pendiente
    /\ form_B = Pendiente
    /\ candidato = None
    /\ conflictos = Pendiente
    /\ asistencias = <<>>
    /\ evaluaciones = <<>>
    /\ tabla_equipos = <<>>
    /\ tabla_jugadores = <<>>

NextConcurrente ==
    \/ \E w \in Trabajadores, p \in PeticionesConcurrentes : crear_consultar(w, p)
    \/ \E w \in Trabajadores : crear_insertar(w)

SpecConcurrente == InitConcurrente /\ [][NextConcurrente]_vars

(***************************************************************************)
(* Views equipos_crear / equipos_editar (app/views.py) on table Equipo      *)
(***************************************************************************)
NumCategorias == 2
MaxEquipos == 2

\* Categoria rows: pk -> slug (models.py:45); the first three are the
\* age-restricted families, any further one has no age restriction
CategoriasIds == 1..NumCategorias
Categoria_slug ==
    [c \in CategoriasIds |->
        CASE c = 1 -> <<"s", "u", "b", "-", "1", "4">>
          [] c = 2 -> <<"s", "u", "b", "-", "1", "6">>
          [] c = 3 -> <<"s", "u", "b", "-", "1", "8">>
          [] OTHER -> <<"a", "d", "u", "l", "t", "o">>]

\* Variant: only the team stored last is compared
equipos_iguales_Mut(tabla, nombre, categoria, excluir) ==
    {pk \in DOMAIN tabla :
        /\ pk = Len(tabla)
        /\ Some(pk) # excluir
        /\ tabla[pk].nombre = nombre
        /\ tabla[pk].categoria = categoria}

\* Equipo.objects.filter(nombre=nombre, categoria=categoria)[.exclude(pk=equipo.pk)]
equipos_iguales(tabla, nombre, categoria, excluir) ==
    {pk \in DOMAIN tabla :
        /\ Some(pk) # excluir
        /\ tabla[pk].nombre = nombre
        /\ tabla[pk].categoria = categoria}

\* The checks both views make on the POSTed fields before the duplicate query:
\* "" when they pass
error_equipo(p) ==
    IF strip(p.nombre) = <<>> THEN "nombre_obligatorio"
    ELSE IF p.categoria = None THEN "categoria_obligatoria"
    ELSE IF p.entrenador = None THEN "entrenador_obligatorio"
    ELSE IF Val(p.categoria) \notin CategoriasIds \/ Val(p.entrenador) \notin Entrenadores
    THEN "categoria_o_entrenador_invalido"
    ELSE ""

RespuestaEquipo(vista, p, equipo_id, texto) ==
    [estado |-> "respuesta", vista |-> vista, peticion |-> p, equipo_id |-> equipo_id,
     texto |-> texto]

equipos_crear(p) ==
    /\ IF ~es_admin_equipo(p.user)
       THEN /\ mensaje' = RespuestaEquipo("equipos_crear", p, 0, "sin_permiso")
            /\ UNCHANGED tabla_equipos
       ELSE IF p.method # "POST"
       THEN /\ mensaje' = RespuestaEquipo("equipos_crear", p, 0, "formulario")
            /\ UNCHANGED tabla_equipos
       ELSE IF error_equipo(p) # ""
       THEN /\ mensaje' = RespuestaEquipo("equipos_crear", p, 0, error_equipo(p))
            /\ UNCHANGED tabla_equipos
       ELSE IF equipos_iguales(tabla_equipos, strip(p.nombre), Val(p.categoria), None) # {}
       THEN /\ mensaje' = RespuestaEquipo("equipos_crear", p, 0, "ya_existe")
            /\ UNCHANGED tabla_equipos
       ELSE /\ Len(tabla_equipos) < MaxEquipos
            /\ tabla_equipos' = Append(tabla_equipos,
                  [nombre |-> strip(p.nombre), categoria |-> Val(p.categoria),
                   entrenador |-> Val(p.entrenador)])
            /\ mensaje' = RespuestaEquipo("equipos_crear", p, 0, "creado")
    /\ UNCHANGED <<actividades, tabla_jugadores, varsElegibilidad, varsSolapamiento,
                   varsAsistencia, varsConcurrencia, varsEvaluaciones>>

equipos_editar(p, equipo_id) ==
    /\ IF ~es_admin_equipo(p.user)
       THEN /\ mensaje' = RespuestaEquipo("equipos_editar", p, equipo_id, "sin_permiso")
            /\ UNCHANGED tabla_equipos
       ELSE IF equipo_id \notin DOMAIN tabla_equipos
       THEN /\ mensaje' = RespuestaEquipo("equipos_editar", p, equipo_id, "404")
            /\ UNCHANGED tabla_equipos
       ELSE IF p.method # "POST"
       THEN /\ mensaje' = RespuestaEquipo("equipos_editar", p, equipo_id, "formulario")
            /\ UNCHANGED tabla_equipos
       ELSE IF error_equipo(p) # ""
       THEN /\ mensaje' = RespuestaEquipo("equipos_editar", p, equipo_id, error_equipo(p))
            /\ UNCHANGED tabla_equipos
       ELSE IF equipos_iguales(tabla_equipos, strip(p.nombre), Val(p.categoria),
                               Some(equipo_id)) # {}
       THEN /\ mensaje' = RespuestaEquipo("equipos_editar", p, equipo_id, "ya_existe")
            /\ UNCHANGED tabla_equipos
       ELSE /\ tabla_equipos' =
                  [tabla_equipos EXCEPT ![equipo_id] =
                      [nombre |-> strip(p.nombre), categoria |-> Val(p.categoria),
                       entrenador |-> Val(p.entrenador)]]
            /\ mensaje' = RespuestaEquipo("equipos_editar", p, equipo_id, "actualizado")
    /\ UNCHANGED <<actividades, tabla_jugadores, varsElegibilidad, varsSolapamiento,
                   varsAsistencia, varsConcurrencia, varsEvaluaciones>>

\* Names POSTed: two names, one of them also with blanks around it, and blanks only
Nombre_A == <<"A">>
Nombre_B == <<"B">>
NombresPOST == {Nombre_A, Nombre_B, <<" ", "A", " ">>}

PeticionEquipoBase ==
    [user |-> Usuario_admin, method |-> "POST", nombre |-> Nombre_A, categoria |-> Some(1),
     entrenador |-> Some(1)]

PeticionesEquipo ==
    { [PeticionEquipoBase EXCEPT !.nombre = n, !.categoria = Some(c)] :
         n \in NombresPOST, c \in {1, NumCategorias} }
    \cup { [PeticionEquipoBase EXCEPT !.entrenador = Some(NumEntrenadores)],
           [PeticionEquipoBase EXCEPT !.user = Usuario_entrenador],
           [PeticionEquipoBase EXCEPT !.method = "GET"],
           [PeticionEquipoBase EXCEPT !.nombre = <<" ">>],
           [PeticionEquipoBase EXCEPT !.categoria = None],
           [PeticionEquipoBase EXCEPT !.entrenador = None],
           [PeticionEquipoBase EXCEPT !.categoria = Some(NumCategorias + 1)],
           [PeticionEquipoBase EXCEPT !.entrenador = Some(NumEntrenadores + 1)] }

InitEquipos ==
    /\ tabla_equipos \in {<<>>, <<[nombre |-> Nombre_A, categoria |-> 1, entrenador |-> 1]>>}
    /\ tabla_jugadores = <<>>
    /\ actividades = <<>>
    /\ mensaje = Pendiente
    /\ hoy = Fecha(2025, 6, 20)
    /\ cleaned_data = [fecha_nacimiento |-> None, equipo |-> None]
    /\ form_A = Pendiente
    /\ form_B = Pendiente
    /\ candidato = None
    /\ conflictos = Pendiente
    /\ asistencias = <<>>
    /\ en_curso = <<>>
    /\ evaluaciones = <<>>

NextEquipos ==
    \/ \E p \in PeticionesEquipo : equipos_crear(p)
    \/ \E p \in PeticionesEquipo, equipo_id \in 1..MaxEquipos :
          /\ equipo_id \in DOMAIN tabla_equipos \/ p = PeticionEquipoBase
          /\ equipos_editar(p, equipo_id)

SpecEquipos == InitEquipos /\ [][NextEquipos]_vars

(***************************************************************************)
(* Views usuarios_crear / usuarios_editar / jugadores_editar (app/views.py) *)
(* on table Jugador; the forms are UsuarioCrearForm / UsuarioEditarForm     *)
(***************************************************************************)
MaxJugadores == 2

\* The Equipo object the form field equipo hands to validar_edad_categoria
equipo_del_formulario(equipo_id) ==
    [categoria |-> Some([nombre |-> None,
                         slug |-> Categoria_slug[tabla_equipos[equipo_id].categoria]]),
     entrenador_activo |-> TRUE]

\* form.is_valid() for a POST whose profile type is tipo: "" when the form is
\* valid.  p.valido stands for the fields other than tipo, fecha_nacimiento
\* and equipo (username, run, passwords, ...)
error_formulario_usuario(p, tipo) ==
    IF ~p.valido THEN "otros_campos"
    ELSE IF p.equipo # None /\ Val(p.equipo) \notin DOMAIN tabla_equipos THEN "equipo_invalido"
    ELSE IF tipo # PerfilTipo_JUGADOR THEN ""
    ELSE IF p.fecha_nacimiento = None THEN "fecha_obligatoria"
    ELSE IF /\ p.equipo # None
            /\ validar_edad_categoria(p.fecha_nacimiento,
                                      Some(equipo_del_formulario(Val(p.equipo)))).raise
    THEN "edad_excede"
    ELSE ""

RespuestaUsuario(vista, p, id, texto) ==
    [estado |-> "respuesta", vista |-> vista, peticion |-> p, id |-> id, texto |-> texto]

\* The Jugador row written from cleaned_data
fila_jugador(p) == [fecha_nacimiento |-> p.fecha_nacimiento, equipo |-> p.equipo]

usuarios_crear(p) ==
    /\ p.tipo = PerfilTipo_JUGADOR => Len(tabla_jugadores) < MaxJugadores
    /\ IF ~es_admin_equipo(p.user)
       THEN /\ mensaje' = RespuestaUsuario("usuarios_crear", p, None, "sin_permiso")
            /\ UNCHANGED tabla_jugadores
       ELSE IF p.method # "POST"
       THEN /\ mensaje' = RespuestaUsuario("usuarios_crear", p, None, "formulario")
            /\ UNCHANGED tabla_jugadores
       ELSE IF error_formulario_usuario(p, p.tipo) # ""
       THEN /\ mensaje' = RespuestaUsuario("usuarios_crear", p, None,
                                           error_formulario_usuario(p, p.tipo))
            /\ UNCHANGED tabla_jugadores
       ELSE /\ tabla_jugadores' = IF p.tipo = PerfilTipo_JUGADOR
                                  THEN Append(tabla_jugadores, fila_jugador(p))
                                  ELSE tabla_jugadores
            /\ mensaje' = RespuestaUsuario("usuarios_crear", p, None, "creado")
    /\ UNCHANGED <<actividades, tabla_equipos, varsElegibilidad, varsSolapamiento,
                   varsAsistencia, varsConcurrencia, varsEvaluaciones>>

\* jugador_id: the Jugador row of the edited Perfil, None when the Perfil has
\* none; an id outside the table stands for a Perfil that does not exist
usuarios_editar(p, jugador_id) ==
    /\ (p.tipo = PerfilTipo_JUGADOR /\ jugador_id = None) => Len(tabla_jugadores) < MaxJugadores
    /\ IF ~es_admin_equipo(p.user)
       THEN /\ mensaje' = RespuestaUsuario("usuarios_editar", p, jugador_id, "sin_permiso")
            /\ UNCHANGED tabla_jugadores
       ELSE IF jugador_id # None /\ Val(jugador_id) \notin DOMAIN tabla_jugadores
       THEN /\ mensaje' = RespuestaUsuario("usuarios_editar", p, jugador_id, "404")
            /\ UNCHANGED tabla_jugadores
       ELSE IF p.method # "POST"
       THEN /\ mensaje' = RespuestaUsuario("usuarios_editar", p, jugador_id, "formulario")
            /\ UNCHANGED tabla_jugadores
       ELSE IF error_formulario_usuario(p, p.tipo) # ""
       THEN /\ mensaje' = RespuestaUsuario("usuarios_editar", p, jugador_id,
                                           error_formulario_usuario(p, p.tipo))
            /\ UNCHANGED tabla_jugadores
       ELSE /\ tabla_jugadores' =
                  IF p.tipo = PerfilTipo_JUGADOR
                  THEN IF jugador_id = None
                       THEN Append(tabla_jugadores, fila_jugador(p))
                       ELSE [tabla_jugadores EXCEPT ![Val(jugador_id)] = fila_jugador(p)]
                  ELSE IF jugador_id = None
                       THEN tabla_jugadores
                       ELSE sin_fila(tabla_jugadores, Val(jugador_id))
            /\ mensaje' = RespuestaUsuario("usuarios_editar", p, jugador_id, "actualizado")
    /\ UNCHANGED <<actividades, tabla_equipos, varsElegibilidad, varsSolapamiento,
                   varsAsistencia, varsConcurrencia, varsEvaluaciones>>

\* The field tipo is disabled: the form takes its initial value JUGADOR
jugadores_editar(p, jugador_id) ==
    /\ IF ~es_admin_equipo(p.user)
       THEN /\ mensaje' = RespuestaUsuario("jugadores_editar", p, Some(jugador_id), "sin_permiso")
            /\ UNCHANGED tabla_jugadores
       ELSE IF jugador_id \notin DOMAIN tabla_jugadores
       THEN /\ mensaje' = RespuestaUsuario("jugadores_editar", p, Some(jugador_id), "404")
            /\ UNCHANGED tabla_jugadores
       ELSE IF p.method # "POST"
       THEN /\ mensaje' = RespuestaUsuario("jugadores_editar", p, Some(jugador_id), "formulario")
            /\ UNCHANGED tabla_jugadores
       ELSE IF error_formulario_usuario(p, PerfilTipo_JUGADOR) # ""
       THEN /\ mensaje' = RespuestaUsuario("jugadores_editar", p, Some(jugador_id),
                                           error_formulario_usuario(p, PerfilTipo_JUGADOR))
            /\ UNCHANGED tabla_jugadores
       ELSE /\ tabla_jugadores' = [tabla_jugadores EXCEPT ![jugador_id] = fila_jugador(p)]
            /\ mensaje' = RespuestaUsuario("jugadores_editar", p, Some(jugador_id), "actualizado")
    /\ UNCHANGED <<actividades, tabla_equipos, varsElegibilidad, varsSolapamiento,
                   varsAsistencia, varsConcurrencia, varsEvaluaciones>>

\* Birth dates of a player aged 14 and of one aged 15 on 2025-06-20
Nacimiento_14 == Fecha(2011, 1, 1)
Nacimiento_15 == Fecha(2010, 1, 1)

PeticionUsuarioBase ==
    [user |-> Usuario_admin, method |-> "POST", valido |-> TRUE, tipo |-> PerfilTipo_JUGADOR,
     fecha_nacimiento |-> Some(Nacimiento_14), equipo |-> Some(1)]

PeticionesUsuario ==
    { [PeticionUsuarioBase EXCEPT !.fecha_nacimiento = Some(f), !.equipo = e] :
         f \in {Nacimiento_14, Nacimiento_15}, e \in {None, Some(1)} }
    \cup { [PeticionUsuarioBase EXCEPT !.fecha_nacimiento = None],
           [PeticionUsuarioBase EXCEPT !.equipo = Some(MaxEquipos + 1)],
           [PeticionUsuarioBase EXCEPT !.tipo = PerfilTipo_ENTRENADOR],
           [PeticionUsuarioBase EXCEPT !.valido = FALSE],
           [PeticionUsuarioBase EXCEPT !.method = "GET"],
           [PeticionUsuarioBase EXCEPT !.user = Usuario_entrenador] }

\* Edits of a team that change its category only
PeticionesCambioCategoria ==
    { [PeticionEquipoBase EXCEPT !.categoria = Some(c)] : c \in CategoriasIds }

\* One team of the first category (sub-14) and no player
InitPlantel ==
    /\ tabla_equipos = <<[nombre |-> Nombre_A, categoria |-> 1, entrenador |-> 1]>>
    /\ tabla_jugadores = <<>>
    /\ actividades = <<>>
    /\ mensaje = Pendiente
    /\ hoy = Fecha(2025, 6, 20)
    /\ cleaned_data = [fecha_nacimiento |-> None, equipo |-> None]
    /\ form_A = Pendiente
    /\ form_B = Pendiente
    /\ candidato = None
    /\ conflictos = Pendiente
    /\ asistencias = <<>>
    /\ en_curso = <<>>
    /\ evaluaciones = <<>>

NextPlantel ==
    \/ \E p \in PeticionesUsuario : usuarios_crear(p)
    \/ \E p \in PeticionesUsuario, jugador_id \in {None} \cup {Some(k) : k \in 1..MaxJugadores} :
          /\ IF jugador_id = None THEN TRUE
             ELSE Val(jugador_id) \in DOMAIN tabla_jugadores \/ p = PeticionUsuarioBase
          /\ usuarios_editar(p, jugador_id)
    \/ \E p \in PeticionesUsuario, jugador_id \in 1..MaxJugadores :
          /\ jugador_id \in DOMAIN tabla_jugadores \/ p = PeticionUsuarioBase
          /\ jugadores_editar(p, jugador_id)
    \/ \E p \in PeticionesCambioCategoria, equipo_id \in DOMAIN tabla_equipos :
          equipos_editar(p, equipo_id)

SpecPlantel == InitPlantel /\ [][NextPlantel]_vars

(***************************************************************************)
(* Properties of the eligibility forms (checked under SpecElegibilidad)     *)
(***************************************************************************)
\* Completed years between a birth date and a reference date
EdadEn(ref, nac) ==
    ref.year - nac.year
      - (IF ref.month < nac.month \/ (ref.month = nac.month /\ ref.day < nac.day) THEN 1 ELSE 0)

CorteEsperado == Fecha(hoy.year - 1, 12, 31)

RangoEsperado(codigo) ==
    CASE codigo = sub_14 -> <<12, 14>>
      [] codigo = sub_16 -> <<14, 16>>
      [] codigo = sub_18 -> <<16, 18>>

\* JugadorForm.clean reached _validar_edad_vs_categoria with a birth date and a
\* team whose category code is one of sub_14, sub_16, sub_18
PoliticaA_Aplicada ==
    /\ form_A.estado = "limpio"
    /\ form_A.excepcion = ""
    /\ cleaned_data.fecha_nacimiento # None
    /\ cleaned_data.equipo # None
    /\ Val(Val(cleaned_data.equipo).categoria).nombre # None
    /\ lower(Val(Val(Val(cleaned_data.equipo).categoria).nombre)) \in {sub_14, sub_16, sub_18}

CodigoA == lower(Val(Val(Val(cleaned_data.equipo).categoria).nombre))
NacimientoForm == Val(cleaned_data.fecha_nacimiento)

EnRangoA(nac, codigo) ==
    /\ RangoEsperado(codigo)[1] <= EdadEn(CorteEsperado, nac)
    /\ EdadEn(CorteEsperado, nac) <= RangoEsperado(codigo)[2]

\* C3: policy A adds no error exactly when min <= age at the cutoff <= max, with
\* ranges (12,14), (14,16), (16,18); both bounds are accepted, and a birth date
\* outside the bracket (one day outside included) gets exactly one error on
\* field equipo, which reports the computed age and the range.
C3_PoliticaA_RangoInclusivo ==
    PoliticaA_Aplicada =>
        /\ (form_A.errores = {}) <=> EnRangoA(NacimientoForm, CodigoA)
        /\ ~EnRangoA(NacimientoForm, CodigoA) =>
             form_A.errores = {[campo |-> "equipo", error |-> "fuera_de_rango",
                                corte |-> CorteEsperado,
                                edad |-> EdadEn(CorteEsperado, NacimientoForm),
                                min_e |-> RangoEsperado(CodigoA)[1],
                                max_e |-> RangoEsperado(CodigoA)[2]]}

\* C3 witness: a birth date one day before the oldest accepted one is rejected
\* with the age max + 1
C3_Witness_UnDiaFuera ==
    /\ PoliticaA_Aplicada
    /\ ~EnRangoA(NacimientoForm, CodigoA)
    /\ EnRangoA(DiaSiguiente(NacimientoForm), CodigoA)
    /\ EdadEn(CorteEsperado, DiaSiguiente(NacimientoForm)) = RangoEsperado(CodigoA)[2]
    /\ \E e \in form_A.errores : e.edad = RangoEsperado(CodigoA)[2] + 1

\* C4: the reference date of policy A is 31 December of (current year - 1) and
\* the age is reference.year - birth.year, minus one when (reference.month,
\* reference.day) < (birth.month, birth.day); a birth date 2011-06-15 evaluated
\* in 2025 has age 13 and is accepted for sub_14.
C4_PoliticaA_EdadAlCorte ==
    PoliticaA_Aplicada =>
        /\ form_A.edad = Some(EdadEn(Fecha(hoy.year - 1, 12, 31), NacimientoForm))
        /\ \A e \in form_A.errores :
              e.corte = Fecha(hoy.year - 1, 12, 31) /\ Some(e.edad) = form_A.edad
        /\ (hoy.year = 2025 /\ NacimientoForm = Fecha(2011, 6, 15) /\ CodigoA = sub_14)
              => (form_A.edad = Some(13) /\ form_A.errores = {})

\* C4 witness: the scenario 2011-06-15 evaluated in 2025 for sub_14
C4_Witness_Escenario ==
    /\ PoliticaA_Aplicada
    /\ hoy.year = 2025
    /\ NacimientoForm = Fecha(2011, 6, 15)
    /\ CodigoA = sub_14
    /\ form_A.edad = Some(13)
    /\ form_A.errores = {}

\* Maxima of the slug patterns found in a (lower-cased) slug
FamiliasSlug(slug) ==
    {k \in {14, 16, 18} :
        \/ (k = 14 /\ (Contiene(Txt_sub_14, lower(slug)) \/ Contiene(Txt_sub14, lower(slug))))
        \/ (k = 16 /\ (Contiene(Txt_sub_16, lower(slug)) \/ Contiene(Txt_sub16, lower(slug))))
        \/ (k = 18 /\ (Contiene(Txt_sub_18, lower(slug)) \/ Contiene(Txt_sub18, lower(slug))))}

SlugForm == Val(Val(cleaned_data.equipo).categoria).slug

\* UsuarioCrearForm.clean called validar_edad_categoria for a player
PoliticaB_Aplicada ==
    /\ form_B.estado = "limpio"
    /\ form_B.tipo = PerfilTipo_JUGADOR
    /\ cleaned_data.fecha_nacimiento # None
    /\ cleaned_data.equipo # None

ErroresEdadB == {e \in form_B.errores : e.error = "edad_excede"}

\* C5: for a slug of the sub-14, sub-16 or sub-18 family, policy B raises a
\* validation error exactly when the age exceeds 14, 16, 18 respectively; there
\* is no lower bound: every age at or below the maximum is accepted and returned.
C5_PoliticaB_SoloMaximo ==
    (PoliticaB_Aplicada /\ Cardinality(FamiliasSlug(SlugForm)) = 1) =>
        LET maximo == CHOOSE k \in FamiliasSlug(SlugForm) : TRUE
            edad   == EdadEn(hoy, NacimientoForm)
        IN  /\ (ErroresEdadB # {}) <=> (edad > maximo)
            /\ (edad <= maximo) => (form_B.errores = {} /\ form_B.edad_calculada = Some(edad))
            /\ (edad > maximo) => form_B.edad_calculada = None

\* C5 witness: a player younger than the three minima of policy A is accepted
\* for the sub-18 family, and the age is returned
C5_Witness_SinMinimo ==
    /\ PoliticaB_Aplicada
    /\ FamiliasSlug(SlugForm) = {18}
    /\ form_B.edad_calculada # None
    /\ Val(form_B.edad_calculada) < 12
    /\ form_B.errores = {}

\* C6: policy B computes today.year - birth.year, minus one when (today.month,
\* today.day) < (birth.month, birth.day); birth date 2011-06-15 gives 14 on
\* 2025-06-20 (accepted for sub-14) and 15 one year later (rejected).
C6_PoliticaB_EdadHoy ==
    (PoliticaB_Aplicada /\ FamiliasSlug(SlugForm) # {}) =>
        /\ form_B.edad_calculada # None => form_B.edad_calculada = Some(EdadEn(hoy, NacimientoForm))
        /\ \A e \in ErroresEdadB : e.edad = EdadEn(hoy, NacimientoForm)
        /\ (form_B.edad_calculada # None) \/ (ErroresEdadB # {})
        /\ (NacimientoForm = Fecha(2011, 6, 15) /\ SlugForm = Txt_sub_14) =>
              /\ hoy = Fecha(2025, 6, 20) => (form_B.edad_calculada = Some(14) /\ form_B.errores = {})
              /\ hoy = Fecha(2026, 6, 20) => (\E e \in ErroresEdadB : e.edad = 15)
              /\ hoy = Fecha(2025, 6, 14) => form_B.edad_calculada = Some(13)

\* C6 witness: the scenario one year later, age 15 rejected for sub-14
C6_Witness_UnAnioDespues ==
    /\ PoliticaB_Aplicada
    /\ NacimientoForm = Fecha(2011, 6, 15)
    /\ SlugForm = Txt_sub_14
    /\ hoy = Fecha(2026, 6, 20)
    /\ \E e \in ErroresEdadB : e.edad = 15 /\ e.edad_maxima = 14

\* The submission lacks the birth date or the team
FaltaDato == cleaned_data.fecha_nacimiento = None \/ cleaned_data.equipo = None

\* JugadorForm.clean reached the age/category step with the submission
PoliticaA_Alcanzada == form_A.estado = "limpio" /\ form_A.excepcion = ""

\* UsuarioCrearForm.clean ran for a player
PoliticaB_Jugador == form_B.estado = "limpio" /\ form_B.tipo = PerfilTipo_JUGADOR

\* C14 as stated: with no birth date or no team neither form gets a
\* validation error.
C14_SinDatosSinError ==
    FaltaDato =>
        /\ PoliticaA_Alcanzada => form_A.errores = {}
        /\ PoliticaB_Jugador => form_B.errores = {}

\* C14 amended: with no birth date or no team the age/category check is not
\* applied by either form (no age is computed, no age/category error is
\* added); policy A adds no error at all, policy B adds none when only the
\* team is missing and exactly the error "fecha de nacimiento obligatoria" on
\* fecha_nacimiento when the birth date is missing.
C14_SinDatosNoAplica ==
    FaltaDato =>
        /\ PoliticaA_Alcanzada => (form_A.errores = {} /\ form_A.edad = None)
        /\ PoliticaB_Jugador =>
              /\ ~form_B.validado
              /\ form_B.edad_calculada = None
              /\ form_B.errores =
                    IF cleaned_data.fecha_nacimiento = None
                    THEN {[campo |-> "fecha_nacimiento", error |-> "obligatoria"]}
                    ELSE {}

\* C14 witness: both forms cleaned a player submission with a team of a
\* sub-14 category and no birth date; policy B holds the required-field error
C14_Witness_SinFechaNacimiento ==
    /\ PoliticaA_Alcanzada
    /\ PoliticaB_Jugador
    /\ cleaned_data.fecha_nacimiento = None
    /\ cleaned_data.equipo # None
    /\ form_A.errores = {}
    /\ form_B.errores = {[campo |-> "fecha_nacimiento", error |-> "obligatoria"]}

\* Policy A evaluated a player aged 12 at the cutoff for a sub_14 team
DoceAniosA ==
    PoliticaA_Aplicada /\ CodigoA = sub_14 /\ EdadEn(CorteEsperado, NacimientoForm) = 12

\* Policy B evaluated a player aged 12 today for a team of the sub-14 family
DoceAniosB ==
    PoliticaB_Aplicada /\ 14 \in FamiliasSlug(SlugForm) /\ EdadEn(hoy, NacimientoForm) = 12

\* C18 as stated: a player aged 12 assigned to a sub-14 team is accepted by
\* policy A and gets a validation error from policy B.
C18_DoceAniosDiscrepan ==
    /\ DoceAniosA => form_A.errores = {}
    /\ DoceAniosB => form_B.errores # {}

\* C18 amended: a player aged 12 assigned to a sub-14 team is accepted by
\* policy A (12 is the lower bound of its range) and by policy B as well (12
\* does not exceed the maximum 14, and B has no lower bound): B returns the age.
C18_DoceAniosAceptados ==
    /\ DoceAniosA => (form_A.errores = {} /\ form_A.edad = Some(12))
    /\ DoceAniosB => (form_B.errores = {} /\ form_B.edad_calculada = Some(12))

\* C18 witness: both forms cleaned the same submission, a player aged 12 at the
\* cutoff and today with a team whose category both policies read as sub-14,
\* and neither holds an error
C18_Witness_DoceAniosAmbas ==
    /\ DoceAniosA /\ DoceAniosB
    /\ form_A.errores = {}
    /\ form_B.errores = {}

(***************************************************************************)
(* Properties of repeated evaluations (checked under SpecEvaluaciones)      *)
(***************************************************************************)
MismoResultado(a, b) == a.edad = b.edad /\ a.aceptado = b.aceptado

\* C19 as stated: two evaluations of the same policy on the same birth date and
\* category give the same age and the same outcome whenever they take place.
C19_MismoResultadoSiempre ==
    \A i, j \in DOMAIN evaluaciones :
        evaluaciones[i].politica = evaluaciones[j].politica =>
            MismoResultado(evaluaciones[i], evaluaciones[j])

\* C19 amended: two evaluations of the same policy on the same birth date and
\* category give the same age and the same outcome, whatever was evaluated
\* before, when date.today() is the same for both; for policy A it is enough
\* that both take place in the same calendar year.
C19_MismoResultadoMismaFecha ==
    \A i, j \in DOMAIN evaluaciones :
        (/\ evaluaciones[i].politica = evaluaciones[j].politica
         /\ IF evaluaciones[i].politica = "A"
            THEN evaluaciones[i].hoy.year = evaluaciones[j].hoy.year
            ELSE evaluaciones[i].hoy = evaluaciones[j].hoy)
        => MismoResultado(evaluaciones[i], evaluaciones[j])

\* C19 witness: policy A evaluated the submission on two different days of one
\* year, with the other policy evaluated in between or not, and gave the same
\* age and outcome
C19_Witness_MismoAnioOtroDia ==
    /\ Len(evaluaciones) = 2
    /\ evaluaciones[1].politica = "A" /\ evaluaciones[2].politica = "A"
    /\ evaluaciones[1].hoy # evaluaciones[2].hoy
    /\ evaluaciones[1].hoy.year = evaluaciones[2].hoy.year
    /\ MismoResultado(evaluaciones[1], evaluaciones[2])

(***************************************************************************)
(* Properties of the activity views (checked under Spec)                    *)
(***************************************************************************)
\* POSTs of an administrator that pass the field validations of the views
PeticionesBienFormadas ==
    {p \in PeticionesActividad :
        /\ p.admin /\ p.method = "POST" /\ p.titulo # "" /\ p.tipo # ""
        /\ p.equipos # {}
        /\ p.fecha_inicio # <<>> /\ p.fecha_inicio[1] \in Fechas
        /\ p.fecha_fin # <<>> => (p.fecha_fin[1] \in Fechas /\ p.fecha_fin[1] >= p.fecha_inicio[1])}

\* Stored activities other than  propia  with one of the selected teams, the
\* same kind and the same start date as the request
MismoDiaMismoTipo(p, propia) ==
    {pk \in DOMAIN actividades :
        /\ pk # propia
        /\ \E e \in p.equipos : e \in actividades[pk].equipos
        /\ actividades[pk].tipo = p.tipo
        /\ actividades[pk].fecha_inicio = p.fecha_inicio[1]}

Guardada(fila, p) ==
    /\ fila.tipo = p.tipo
    /\ fila.fecha_inicio = p.fecha_inicio[1]
    /\ fila.equipos = p.equipos \cap Equipos

EsRespuesta(vista) ==
    /\ mensaje'.estado = "respuesta"
    /\ mensaje'.vista = vista
    /\ mensaje'.peticion \in PeticionesBienFormadas
    /\ vista = "editar" => mensaje'.actividad_id \in DOMAIN actividades

\* C1: for a well-formed request, actividades_crear stores a new activity iff no
\* stored activity shares a selected team, the kind and the start date;
\* actividades_editar applies the same rule leaving out the edited activity;
\* on rejection the stored activities and their team sets are unchanged.
C1_MismoDiaMismoTipo ==
    [][ /\ EsRespuesta("crear") =>
             IF MismoDiaMismoTipo(mensaje'.peticion, 0) = {}
             THEN /\ Len(actividades') = Len(actividades) + 1
                  /\ SubSeq(actividades', 1, Len(actividades)) = actividades
                  /\ Guardada(actividades'[Len(actividades')], mensaje'.peticion)
                  /\ mensaje'.texto = "creada"
             ELSE actividades' = actividades /\ mensaje'.texto = "conflicto"
        /\ EsRespuesta("editar") =>
             IF MismoDiaMismoTipo(mensaje'.peticion, mensaje'.actividad_id) = {}
             THEN /\ Guardada(actividades'[mensaje'.actividad_id], mensaje'.peticion)
                  /\ \A pk \in DOMAIN actividades :
                        pk # mensaje'.actividad_id => actividades'[pk] = actividades[pk]
                  /\ DOMAIN actividades' = DOMAIN actividades
                  /\ mensaje'.texto = "actualizada"
             ELSE actividades' = actividades /\ mensaje'.texto = "conflicto"
      ]_vars

\* C1 witness: an edit rejected by a conflict with another stored activity,
\* while the edited activity itself has the kind and date of its own row
C1_Witness_EdicionRechazada ==
    /\ mensaje.estado = "respuesta"
    /\ mensaje.vista = "editar"
    /\ mensaje.texto = "conflicto"
    /\ Len(actividades) >= 2

TieneHorario(fila) == fila.hora_inicio # None /\ fila.hora_fin # None

\* C9: the same-day-same-kind rule ignores the time fields: a well-formed
\* request for the kind, start date and a team of another stored activity is
\* rejected whatever hora_inicio / hora_fin that activity and the edited
\* activity hold, non-overlapping times included.
C9_IgnoraHorarios ==
    [][ \A vista \in {"crear", "editar"} :
          (/\ EsRespuesta(vista)
           /\ \E pk \in DOMAIN actividades :
                /\ pk # mensaje'.actividad_id
                /\ actividades[pk].tipo = mensaje'.peticion.tipo
                /\ actividades[pk].fecha_inicio = mensaje'.peticion.fecha_inicio[1]
                /\ actividades[pk].equipos \cap mensaje'.peticion.equipos # {}
                /\ actividades[pk].hora_inicio \in HorasInicio
                /\ actividades[pk].hora_fin \in HorasFin)
          => (mensaje'.texto = "conflicto" /\ actividades' = actividades)
      ]_vars

\* C9 witness: an edit rejected although the edited activity and the other
\* activity of that kind and day have timetables that do not overlap
C9_Witness_HorariosDisjuntos ==
    /\ mensaje.estado = "respuesta"
    /\ mensaje.vista = "editar"
    /\ mensaje.texto = "conflicto"
    /\ mensaje.equipos # {}
    /\ \E a, b \in DOMAIN actividades :
          /\ a # b
          /\ TieneHorario(actividades[a]) /\ TieneHorario(actividades[b])
          /\ Val(actividades[a].hora_fin) <= Val(actividades[b].hora_inicio)
          /\ actividades[a].tipo = actividades[b].tipo
          /\ actividades[a].fecha_inicio = actividades[b].fecha_inicio
          /\ mensaje.equipos \subseteq actividades[b].equipos

\* C17: when the same-day-same-kind rule rejects a request, the teams named in
\* the error are exactly the selected teams that take part in at least one of
\* the conflicting activities (stored, of the same kind and start date, sharing
\* a selected team, other than the edited activity).
C17_EquiposEnConflicto ==
    (mensaje.estado = "respuesta" /\ mensaje.texto = "conflicto") =>
        mensaje.equipos =
            {e \in mensaje.peticion.equipos :
                \E pk \in MismoDiaMismoTipo(mensaje.peticion, mensaje.actividad_id) :
                    e \in actividades[pk].equipos}

\* C17 witness: a request for all the teams is rejected and the error names
\* some of them but not all
C17_Witness_NombraSoloAlgunos ==
    /\ mensaje.estado = "respuesta" /\ mensaje.texto = "conflicto"
    /\ mensaje.peticion.equipos = Equipos
    /\ mensaje.equipos # {}
    /\ mensaje.equipos # Equipos

\* The request carries two well-formed dates, the end before the start
FinAntesDeInicio(p) ==
    /\ strptime(p.fecha_inicio) # None /\ strptime(p.fecha_fin) # None
    /\ Val(strptime(p.fecha_fin)) < Val(strptime(p.fecha_inicio))

\* C20: every stored activity has fecha_fin >= fecha_inicio after any sequence
\* of actividades_crear and actividades_editar; a request whose fecha_fin is
\* earlier than its fecha_inicio is rejected and changes nothing; a request
\* with an empty fecha_fin that is stored gets fecha_fin = fecha_inicio.
C20_FinNoAntesDeInicio ==
    /\ [](\A pk \in DOMAIN actividades :
            actividades[pk].fecha_fin >= actividades[pk].fecha_inicio)
    /\ [][ mensaje'.estado = "respuesta" =>
             /\ FinAntesDeInicio(mensaje'.peticion) =>
                   /\ actividades' = actividades
                   /\ mensaje'.texto \notin {"creada", "actualizada"}
             /\ (mensaje'.peticion.fecha_fin = <<>> /\ mensaje'.texto = "creada") =>
                   /\ Len(actividades') = Len(actividades) + 1
                   /\ actividades'[Len(actividades')].fecha_inicio
                         = Val(strptime(mensaje'.peticion.fecha_inicio))
                   /\ actividades'[Len(actividades')].fecha_fin
                         = actividades'[Len(actividades')].fecha_inicio
             /\ (mensaje'.peticion.fecha_fin = <<>> /\ mensaje'.texto = "actualizada") =>
                   /\ actividades'[mensaje'.actividad_id].fecha_inicio
                         = Val(strptime(mensaje'.peticion.fecha_inicio))
                   /\ actividades'[mensaje'.actividad_id].fecha_fin
                         = actividades'[mensaje'.actividad_id].fecha_inicio
       ]_vars

\* C20 witness: an edit with the end date before the start date is answered
\* with the date error while the edited activity lasts more than one day
C20_Witness_EdicionFechaFinAnterior ==
    /\ mensaje.estado = "respuesta"
    /\ mensaje.vista = "editar"
    /\ FinAntesDeInicio(mensaje.peticion)
    /\ mensaje.texto = "fecha_fin_anterior"
    /\ mensaje.actividad_id \in DOMAIN actividades
    /\ actividades[mensaje.actividad_id].fecha_fin > actividades[mensaje.actividad_id].fecha_inicio

(***************************************************************************)
(* Properties of the time-overlap checks (checked under SpecSolapamiento)   *)
(***************************************************************************)
Llamado(metodo) == conflictos.estado = "hecho" /\ conflictos.metodo = metodo

Cand == Val(candidato)

\* pks of the activities listed in the returned value
Reportadas == IF conflictos.valor = None THEN {}
              ELSE {Val(conflictos.valor)[i].actividad : i \in 1..Len(Val(conflictos.valor))}

AmbosConHorario(c, y) ==
    /\ c.hora_inicio # None /\ c.hora_fin # None
    /\ y.hora_inicio # None /\ y.hora_fin # None

\* The coach directs a team of activity y or is its responsible coach
EntrenadorImplicado(coach, y) ==
    \/ y.entrenador_responsable_id = Some(coach)
    \/ \E e \in y.equipos : Equipo_entrenador_id[e] = coach

\* The stored activity pk is one the method compares the candidate with: another
\* activity, sharing a team (team check) or involving the coach (coach check)
Comparable(pk) ==
    /\ Some(pk) # Cand.pk
    /\ Llamado("equipos") => Cand.equipos \cap actividades[pk].equipos # {}
    /\ Llamado("entrenador") =>
          /\ Cand.entrenador_responsable_id # None
          /\ EntrenadorImplicado(Val(Cand.entrenador_responsable_id), actividades[pk])

\* C2: for a candidate and a stored activity that both have hora_inicio and
\* hora_fin and the same fecha_inicio, both checks report the stored activity
\* exactly when candidate.hora_inicio < stored.hora_fin and candidate.hora_fin >
\* stored.hora_inicio; timetables that only touch are no conflict.
C2_SolapamientoHorario ==
    conflictos.estado = "hecho" =>
        \A pk \in DOMAIN actividades :
            (/\ Comparable(pk)
             /\ AmbosConHorario(Cand, actividades[pk])
             /\ Cand.fecha_inicio = actividades[pk].fecha_inicio)
            => /\ (pk \in Reportadas) <=>
                     (/\ Val(Cand.hora_inicio) < Val(actividades[pk].hora_fin)
                      /\ Val(Cand.hora_fin) > Val(actividades[pk].hora_inicio))
               /\ Val(Cand.hora_inicio) = Val(actividades[pk].hora_fin) => pk \notin Reportadas

\* C7: verificar_disponibilidad_entrenador(C) reports every other activity with
\* the same start date and an overlapping time range of which C is the
\* responsible coach or in which a team coached by C takes part.
C7_EntrenadorEquiposDirigidos ==
    (Llamado("entrenador") /\ Cand.entrenador_responsable_id # None) =>
        \A pk \in DOMAIN actividades :
            (/\ Some(pk) # Cand.pk
             /\ EntrenadorImplicado(Val(Cand.entrenador_responsable_id), actividades[pk])
             /\ AmbosConHorario(Cand, actividades[pk])
             /\ Cand.fecha_inicio = actividades[pk].fecha_inicio
             /\ Val(Cand.hora_inicio) < Val(actividades[pk].hora_fin)
             /\ Val(Cand.hora_fin) > Val(actividades[pk].hora_inicio))
            => pk \in Reportadas

\* Some conflict, by team or by coach, is reported when  a  is checked against
\* the table holding only  b
ReportaConflicto(a, b) ==
    \/ verificar_solapamiento_equipos(<<b>>, a, a.equipos) # None
    \/ verificar_disponibilidad_entrenador(<<b>>, a, a.entrenador_responsable_id).valor # None

SinPk(c) == [c EXCEPT !.pk = None]

\* C8: conflict detection is symmetric: when checking the candidate A (an
\* activity with at least one team) against the stored activity B reports a
\* conflict (team or coach), checking B as the candidate against A reports a
\* conflict too.
C8_DeteccionSimetrica ==
    (conflictos.estado = "hecho" /\ conflictos.valor # None /\ Cand.equipos # {}) =>
        ReportaConflicto([pk |-> None] @@ actividades[1], SinPk(Cand))

\* C8 witness: the team check reports the stored activity for a new candidate
\* that shares a team and the day with it and overlaps it in time
C8_Witness_ConflictoDeEquipo ==
    /\ Llamado("equipos")
    /\ Cand.pk = None
    /\ 1 \in Reportadas
    /\ Val(Cand.hora_inicio) # Val(actividades[1].hora_inicio)

\* C10: an activity without hora_inicio or hora_fin never takes part in the
\* time-overlap rule: for such a candidate both checks return None, and a
\* stored activity lacking either time is never reported.
C10_SinHorarioSinSolapamiento ==
    conflictos.estado = "hecho" =>
        /\ (Cand.hora_inicio = None \/ Cand.hora_fin = None) =>
              (conflictos.valor = None /\ conflictos.excepcion = "")
        /\ \A pk \in Reportadas :
              actividades[pk].hora_inicio # None /\ actividades[pk].hora_fin # None

\* C10 witness: a candidate with a start time only, on the day and with a team
\* of a stored activity that has a timetable, gets None from the team check
C10_Witness_CandidatoSinHoraFin ==
    /\ Llamado("equipos")
    /\ Cand.hora_inicio # None /\ Cand.hora_fin = None
    /\ Cand.pk = None
    /\ Cand.fecha_inicio = actividades[1].fecha_inicio
    /\ Cand.equipos \cap actividades[1].equipos # {}
    /\ actividades[1].hora_inicio # None /\ actividades[1].hora_fin # None
    /\ conflictos.valor = None

(***************************************************************************)
(* Properties of the checks on two stored activities (SpecConflictos)       *)
(***************************************************************************)
\* The stored activity pk is another activity on the candidate's start date
\* whose time range overlaps the candidate's
OtraSolapada(pk) ==
    /\ Some(pk) # Cand.pk
    /\ AmbosConHorario(Cand, actividades[pk])
    /\ actividades[pk].fecha_inicio = Cand.fecha_inicio
    /\ Val(Cand.hora_inicio) < Val(actividades[pk].hora_fin)
    /\ Val(Cand.hora_fin) > Val(actividades[pk].hora_inicio)

\* C15: for a candidate with both times obtener_entrenadores_disponibles returns
\* exactly the active coaches minus every coach who is the responsible coach, or
\* the coach of a participating team, of another activity on the candidate's
\* start date with an overlapping time range; for a candidate lacking a time it
\* returns all active coaches.
C15_EntrenadoresDisponibles ==
    Llamado("disponibles") =>
        IF Cand.hora_inicio = None \/ Cand.hora_fin = None
        THEN conflictos.disponibles = conflictos.activos
        ELSE conflictos.disponibles =
                {c \in conflictos.activos :
                    ~\E pk \in DOMAIN actividades :
                        OtraSolapada(pk) /\ EntrenadorImplicado(c, actividades[pk])}

\* The table with its rows in the opposite order, and the candidate in it
Invertida == [i \in 1..Len(actividades) |-> actividades[Len(actividades) + 1 - i]]

CandInvertido ==
    IF Cand.pk = None THEN Cand
    ELSE [Cand EXCEPT !.pk = Some(Len(actividades) + 1 - Val(Cand.pk))]

\* pks (of actividades) the called method reports on the table in opposite order
ReportadasInvertida ==
    LET valor == IF Llamado("equipos")
                 THEN verificar_solapamiento_equipos(Invertida, CandInvertido,
                                                     CandInvertido.equipos)
                 ELSE verificar_disponibilidad_entrenador(Invertida, CandInvertido,
                          CandInvertido.entrenador_responsable_id).valor
    IN  IF valor = None THEN {}
        ELSE {Len(actividades) + 1 - Val(valor)[i].actividad : i \in 1..Len(Val(valor))}

\* C16: the list returned by verificar_solapamiento_equipos and by
\* verificar_disponibilidad_entrenador holds every stored activity that
\* satisfies the conflict condition, each once, and the same activities for
\* every order of the stored activities.
C16_TodosLosConflictos ==
    (/\ Llamado("equipos") \/ Llamado("entrenador")
     /\ Cand.hora_inicio # None /\ Cand.hora_fin # None) =>
        /\ Reportadas = {pk \in DOMAIN actividades : Comparable(pk) /\ OtraSolapada(pk)}
        /\ conflictos.valor # None =>
              Len(Val(conflictos.valor)) = Cardinality(Reportadas)
        /\ ReportadasInvertida = Reportadas

MismoPar(x, y) == x.jugador = y.jugador /\ x.actividad = y.actividad

Duplicadas(p) ==
    {pk \in DOMAIN actividades :
        /\ actividades[pk].tipo = p.tipo
        /\ actividades[pk].fecha_inicio = p.fecha_inicio[1]
        /\ actividades[pk].equipos \cap p.equipos # {}}

\* C12: concurrent creation is not serialized: a request that passed the
\* conflict query is stored whatever was inserted since, so every stored
\* activity of its team, kind and start date was inserted after its query;
\* two such requests can both be stored.
C12_CreacionConcurrente ==
    [][ \A w \in Trabajadores :
          (en_curso[w].estado = "consultado" /\ en_curso'[w].estado = "libre") =>
             /\ Len(actividades') = Len(actividades) + 1
             /\ SubSeq(actividades', 1, Len(actividades)) = actividades
             /\ Guardada(actividades'[Len(actividades')], en_curso[w].peticion)
             /\ \A pk \in Duplicadas(en_curso[w].peticion) : pk > en_curso[w].leidas
      ]_vars

\* C12 witness: both requests are done and two stored activities share the
\* team, the kind and the start date
C12_Witness_DosIguales ==
    /\ \A w \in DOMAIN en_curso : en_curso[w].estado = "libre"
    /\ \E a, b \in DOMAIN actividades :
          /\ a # b
          /\ actividades[a].tipo = actividades[b].tipo
          /\ actividades[a].fecha_inicio = actividades[b].fecha_inicio
          /\ actividades[a].equipos \cap actividades[b].equipos # {}

(***************************************************************************)
(* Properties of the team views (checked under SpecEquipos)                 *)
(***************************************************************************)
\* Stored teams other than  propio  with the name (blanks trimmed) and the
\* category of the request
MismoNombreCategoria(p, propio) ==
    {pk \in DOMAIN tabla_equipos :
        /\ pk # propio
        /\ tabla_equipos[pk].nombre = strip(p.nombre)
        /\ Some(tabla_equipos[pk].categoria) = p.categoria}

\* C21: no two stored teams have the same nombre and the same categoria after
\* any sequence of equipos_crear and equipos_editar; a create or an edit that
\* would produce such a pair is rejected and leaves the stored teams unchanged.
C21_EquipoUnicoPorNombreCategoria ==
    /\ [](\A a, b \in DOMAIN tabla_equipos :
            (/\ tabla_equipos[a].nombre = tabla_equipos[b].nombre
             /\ tabla_equipos[a].categoria = tabla_equipos[b].categoria) => a = b)
    /\ [][ (/\ mensaje'.estado = "respuesta"
            /\ mensaje'.vista \in {"equipos_crear", "equipos_editar"}
            /\ MismoNombreCategoria(mensaje'.peticion, mensaje'.equipo_id) # {})
           => (/\ tabla_equipos' = tabla_equipos
               /\ mensaje'.texto \notin {"creado", "actualizado"})
       ]_vars

\* C21 witness: an edit that would give a team the name and category of
\* another stored team is answered "ya existe"
C21_Witness_EdicionDuplicada ==
    /\ mensaje.estado = "respuesta"
    /\ mensaje.vista = "equipos_editar"
    /\ mensaje.texto = "ya_existe"
    /\ Len(tabla_equipos) >= 2
    /\ tabla_equipos[mensaje.equipo_id].nombre # strip(mensaje.peticion.nombre)

(***************************************************************************)
(* Properties of create, edit and cancel (checked under SpecCancelacion)    *)
(***************************************************************************)
\* C22: after any sequence of actividades_crear, actividades_editar and
\* actividad_cancelar served one at a time, no two distinct stored activities
\* share a participating team, the kind and the start date.
C22_SinDuplicadosSecuencial ==
    \A a, b \in DOMAIN actividades :
        (/\ actividades[a].equipos \cap actividades[b].equipos # {}
         /\ actividades[a].tipo = actividades[b].tipo
         /\ actividades[a].fecha_inicio = actividades[b].fecha_inicio) => a = b

\* C22 witness: after a cancel request for a stored activity was served, two
\* activities of the same kind and start date are stored, for different teams
C22_Witness_MismoDiaOtroEquipo ==
    /\ mensaje.estado = "respuesta"
    /\ mensaje.vista = "cancelar"
    /\ mensaje.actividad_id \in DOMAIN actividades
    /\ \E a, b \in DOMAIN actividades :
          /\ a # b
          /\ actividades[a].tipo = actividades[b].tipo
          /\ actividades[a].fecha_inicio = actividades[b].fecha_inicio

RespondeEdicion ==
    /\ mensaje'.estado = "respuesta"
    /\ mensaje'.vista \in {"asistencias_editar", "asistencias_eliminar"}

\* The requesting user is a coach without superuser rights and the record
\* asked for exists and was recorded by another coach
EntrenadorAjeno ==
    /\ mensaje'.peticion.user.tipo = PerfilTipo_ENTRENADOR
    /\ ~mensaje'.peticion.user.is_superuser
    /\ mensaje'.asistencia_id \in DOMAIN asistencias
    /\ asistencias[mensaje'.asistencia_id].entrenador # mensaje'.peticion.user.perfil_id

\* The requesting user is neither superuser, ADMIN, EQUIPO_ADMIN nor coach
SinRol ==
    /\ ~mensaje'.peticion.user.is_superuser
    /\ mensaje'.peticion.user.tipo
          \notin {PerfilTipo_ADMIN, PerfilTipo_EQUIPO_ADMIN, PerfilTipo_ENTRENADOR}

\* C28: asistencias_editar and asistencias_eliminar leave every record as it
\* was when the requesting coach (not superuser) is not the record's
\* entrenador, and when the user is neither admin, team admin nor coach.
C28_SoloAsistenciasPropias ==
    [][ RespondeEdicion /\ (EntrenadorAjeno \/ SinRol) => asistencias' = asistencias ]_vars

\* C28 witness: a coach asked to delete a record taken by another coach and
\* was refused, the record still being stored
C28_Witness_EliminarAjena ==
    /\ mensaje.estado = "respuesta"
    /\ mensaje.vista = "asistencias_eliminar"
    /\ mensaje.texto = "no_propia"
    /\ mensaje.peticion.user = Usuario_otro_entrenador
    /\ mensaje.asistencia_id \in DOMAIN asistencias
    /\ asistencias[mensaje.asistencia_id].entrenador = 1

(***************************************************************************)
(* Further properties of the checks on two stored activities (SpecConflictos)*)
(***************************************************************************)
\* verificar_disponibilidad_entrenador returns without a conflict for coach c
SinConflicto(c) ==
    LET r == verificar_disponibilidad_entrenador(actividades, Cand, Some(c))
    IN  r.excepcion = "" /\ r.valor = None

\* C24: for a candidate with both times and every active coach c, c is in the
\* result of obtener_entrenadores_disponibles exactly when
\* verificar_disponibilidad_entrenador reports no conflict for c.
C24_DisponibleSiiSinConflicto ==
    (/\ Llamado("disponibles")
     /\ Cand.hora_inicio # None /\ Cand.hora_fin # None) =>
        \A c \in conflictos.activos : c \in conflictos.disponibles <=> SinConflicto(c)

\* The date ranges of the candidate and of the stored activity pk overlap
RangosSolapan(pk) ==
    /\ actividades[pk].fecha_inicio <= Cand.fecha_fin
    /\ actividades[pk].fecha_fin >= Cand.fecha_inicio

\* C25: a stored activity whose date range overlaps the candidate's but whose
\* fecha_inicio differs from the candidate's is never in the conflicts
\* reported by the team check or by the coach check, whatever the times.
C25_SoloMismaFechaInicio ==
    (Llamado("equipos") \/ Llamado("entrenador")) =>
        \A pk \in DOMAIN actividades :
            (RangosSolapan(pk) /\ actividades[pk].fecha_inicio # Cand.fecha_inicio)
                => pk \notin Reportadas

\* C25 witness: the team check ran for a candidate on the last day of a stored
\* several-day activity of the same team with overlapping times, and reported
\* nothing
C25_Witness_ActividadDeVariosDias ==
    /\ Llamado("equipos")
    /\ conflictos.valor = None
    /\ Cand.pk = None
    /\ \E pk \in DOMAIN actividades :
          /\ RangosSolapan(pk)
          /\ actividades[pk].fecha_inicio < Cand.fecha_inicio
          /\ actividades[pk].equipos \cap Cand.equipos # {}
          /\ AmbosConHorario(Cand, actividades[pk])
          /\ horarios_solapan(Cand, actividades[pk])

(***************************************************************************)
(* Properties of the player and team views (checked under SpecPlantel)      *)
(***************************************************************************)
\* C26: no stored player with a birth date is in a team whose category has a
\* maximum age (sub-14/16/18) below the player's age, after any sequence of
\* usuarios_crear, usuarios_editar, jugadores_editar and equipos_editar at a
\* fixed current date.
C26_JugadoresDentroDeCategoria ==
    \A j \in DOMAIN tabla_jugadores :
        (tabla_jugadores[j].fecha_nacimiento # None /\ tabla_jugadores[j].equipo # None) =>
            LET edad_maxima ==
                    edad_maxima_categoria(
                        lower(Categoria_slug[tabla_equipos[Val(tabla_jugadores[j].equipo)].categoria]))
            IN  edad_maxima # None =>
                    calcular_edad(Val(tabla_jugadores[j].fecha_nacimiento)) <= Val(edad_maxima)

(***************************************************************************)
(* Properties of actividad_cancelar (checked under SpecCancelacion)         *)
(***************************************************************************)
\* The stored activity row is cancelled
EstaCancelada(fila) == leer_atributo(fila, "cancelada") = Some(TRUE)

C30_HoraFinPosterior ==
    Llamado("clean") =>
        /\ (conflictos.excepcion = "ValidationError") <=>
              (/\ Cand.hora_inicio # None /\ Cand.hora_fin # None
               /\ Val(Cand.hora_fin) <= Val(Cand.hora_inicio))
        /\ conflictos.excepcion = "ValidationError" =>
              {e.campo : e \in conflictos.errores} = {"hora_fin"}
        /\ (Cand.hora_inicio = None \/ Cand.hora_fin = None) => conflictos.excepcion = ""

\* C30 witness: clean was called on an activity that ends at the time it
\* starts, and raised
C30_Witness_HorasIguales ==
    /\ Llamado("clean")
    /\ Cand.hora_inicio # None
    /\ Cand.hora_fin = Cand.hora_inicio
    /\ conflictos.excepcion = "ValidationError"

====
